---- MODULE Spec2Model ----
(***************************************************************************)
(* SOCKS5 proxy (RFC 1928 / RFC 1929): the server connection handler of    *)
(* src/src/server.rs, the client engine of src/src/client.rs and the wire  *)
(* codecs of src/src/protocol.rs, as state machines over byte streams.     *)
(*                                                                         *)
(* A stream is the sequence of bytes written to it so far, a read position *)
(* of its reader, and a state: "open", "eof" (the writer shut its side     *)
(* down) or "reset" (the connection is gone: reads and writes fail).       *)
(* A decoder is an operator on the unread bytes; it answers Ok, Err or     *)
(* Pending (the read blocks until the writer supplies more bytes).         *)
(***************************************************************************)
EXTENDS Integers, Sequences, FiniteSets, TLC

\* ------------------------------------------------------------- constants
SOCKS_VERSION == 5
CMD_CONNECT == 1
CMD_BIND == 2
CMD_UDP_ASSOCIATE == 3
ATYP_IPV4 == 1
ATYP_DOMAIN == 3
ATYP_IPV6 == 4
AUTH_NONE == 0
AUTH_PASSWORD == 2
AUTH_NOT_ACCEPTABLE == 255
REP_SUCCEEDED == 0
REP_GENERAL_FAILURE == 1
REP_CONNECTION_NOT_ALLOWED == 2
REP_NETWORK_UNREACHABLE == 3
REP_HOST_UNREACHABLE == 4
REP_CONNECTION_REFUSED == 5
REP_TTL_EXPIRED == 6
REP_COMMAND_NOT_SUPPORTED == 7
REP_ADDRESS_TYPE_NOT_SUPPORTED == 8
AUTH_VERSION == 1
AUTH_SUCCESS == 0
AUTH_FAILURE == 1

\* --------------------------------------------------------------- bounds
\* how many payload chunks the peer of the server writes after its request
MaxPayload == 1
\* how many chunks the upstream writes during the relay
MaxUpstream == 1
\* capacity of the relay's copy buffer, in bytes
CopyBuf == 2

\* -------------------------------------------------------------- helpers
None == <<>>
Some(x) == <<x>>

Drop(s, n) == SubSeq(s, n + 1, Len(s))
Take(s, n) == SubSeq(s, 1, n)
IsPrefix(p, s) == Len(p) <= Len(s) /\ Take(s, Len(p)) = p
Contains(s, x) == \E i \in 1..Len(s) : s[i] = x

\* faulty variant: the port is written low byte first
U16Bytes_LittleEndian(p) == <<p % 256, (p \div 256) % 256>>

\* u16 big-endian, as write_u16 / read_u16
U16Bytes(p) == <<(p \div 256) % 256, p % 256>>
U16Of(hi, lo) == hi * 256 + lo

\* String::from_utf8: whether the bytes are well-formed UTF-8
Cont(b) == b >= 128 /\ b <= 191
\* bytes a character takes by its first byte; 0 for a byte that starts none
Utf8Width(b) ==
    IF b <= 127 THEN 1
    ELSE IF b >= 194 /\ b <= 223 THEN 2
    ELSE IF b >= 224 /\ b <= 239 THEN 3
    ELSE IF b >= 240 /\ b <= 244 THEN 4
    ELSE 0
\* every byte that is not a continuation byte starts a complete character, and
\* every continuation byte lies inside the character started before it
IsUtf8(s) ==
    \A i \in 1..Len(s) :
        LET b == s[i] IN
        IF Cont(b)
        THEN \E k \in 1..3 :
                /\ i - k >= 1
                /\ ~Cont(s[i - k]) /\ Utf8Width(s[i - k]) > k
                /\ \A m \in 1..(k - 1) : Cont(s[i - m])
        ELSE /\ Utf8Width(b) >= 1
             /\ i + Utf8Width(b) - 1 <= Len(s)
             /\ \A m \in 1..(Utf8Width(b) - 1) : Cont(s[i + m])
             /\ (b = 224 => s[i + 1] >= 160)
             /\ (b = 237 => s[i + 1] <= 159)
             /\ (b = 240 => s[i + 1] >= 144)
             /\ (b = 244 => s[i + 1] <= 143)

\* ---------------------------------------------------------------- codecs
\* A decoder's answer on the unread bytes b of a stream in state st:
\*   Ok(v, n)   the value and the number of bytes consumed
\*   Err(e, n)  the error message and the number of bytes consumed before it
\*   Pending    the read blocks: more bytes are needed and the stream is open
Ok(v, n) == [st |-> "Ok", val |-> Some(v), err |-> "", n |-> n]
Err(e, n) == [st |-> "Err", val |-> None, err |-> e, n |-> n]
Pending == [st |-> "Pending", val |-> None, err |-> "", n |-> 0]

\* faulty variant: a read at end of stream keeps waiting for the missing bytes
Short_WaitsAtEof(b, st) ==
    IF st = "reset" THEN Err("connection reset", 0) ELSE Pending

\* a read that needs more bytes than were written: it blocks on an open stream,
\* fails with UnexpectedEof once the writer has shut down, and with the
\* connection's error once it is reset
Short(b, st) ==
    IF st = "open" THEN Pending
    ELSE IF st = "eof" THEN Err("early eof", Len(b))
    ELSE Err("connection reset", 0)

\* SocksAddr values: the address type, the address or name bytes, the port
Ipv4(a, port) == [atyp |-> ATYP_IPV4, host |-> a, port |-> port]
Ipv6(a, port) == [atyp |-> ATYP_IPV6, host |-> a, port |-> port]
Domain(name, port) == [atyp |-> ATYP_DOMAIN, host |-> name, port |-> port]

\* faulty variant: a domain name of length zero is refused
SocksAddr_read_from_NoEmptyName(b, st) ==
    IF Len(b) < 1 THEN Short(b, st)
    ELSE LET addr_type == b[1] IN
      IF addr_type = ATYP_IPV4 THEN
          IF Len(b) < 7 THEN Short(b, st)
          ELSE Ok(Ipv4(SubSeq(b, 2, 5), U16Of(b[6], b[7])), 7)
      ELSE IF addr_type = ATYP_IPV6 THEN
          IF Len(b) < 19 THEN Short(b, st)
          ELSE Ok(Ipv6(SubSeq(b, 2, 17), U16Of(b[18], b[19])), 19)
      ELSE IF addr_type = ATYP_DOMAIN THEN
          IF Len(b) < 2 THEN Short(b, st)
          ELSE LET len == b[2] IN
            IF len = 0 THEN Err("Invalid domain name", 2)
            ELSE IF Len(b) < 2 + len THEN Short(b, st)
            ELSE LET domain == SubSeq(b, 3, 2 + len) IN
              IF ~IsUtf8(domain) THEN Err("Invalid domain name", 2 + len)
              ELSE IF Len(b) < 4 + len THEN Short(b, st)
              ELSE Ok(Domain(domain, U16Of(b[3 + len], b[4 + len])), 4 + len)
      ELSE Err("Unsupported address type", 1)

\* protocol.rs 52-85: SocksAddr::read_from
SocksAddr_read_from(b, st) ==
    IF Len(b) < 1 THEN Short(b, st)
    ELSE LET addr_type == b[1] IN
      IF addr_type = ATYP_IPV4 THEN
          IF Len(b) < 7 THEN Short(b, st)
          ELSE Ok(Ipv4(SubSeq(b, 2, 5), U16Of(b[6], b[7])), 7)
      ELSE IF addr_type = ATYP_IPV6 THEN
          IF Len(b) < 19 THEN Short(b, st)
          ELSE Ok(Ipv6(SubSeq(b, 2, 17), U16Of(b[18], b[19])), 19)
      ELSE IF addr_type = ATYP_DOMAIN THEN
          IF Len(b) < 2 THEN Short(b, st)
          ELSE LET len == b[2] IN
            IF Len(b) < 2 + len THEN Short(b, st)
            ELSE LET domain == SubSeq(b, 3, 2 + len) IN
              IF ~IsUtf8(domain) THEN Err("Invalid domain name", 2 + len)
              ELSE IF Len(b) < 4 + len THEN Short(b, st)
              ELSE Ok(Domain(domain, U16Of(b[3 + len], b[4 + len])), 4 + len)
      ELSE Err("Unsupported address type", 1)

\* An encoder's answer: the bytes it wrote and the error it stopped with ("" if none)
Wrote(bytes, err) == [bytes |-> bytes, err |-> err]

SocksAddr_write_to(addr) ==
    IF addr.atyp = ATYP_DOMAIN THEN
        IF Len(addr.host) > 255 THEN Wrote(<<>>, "Domain too long")
        ELSE Wrote(<<ATYP_DOMAIN, Len(addr.host)>> \o addr.host \o U16Bytes(addr.port), "")
    ELSE Wrote(<<addr.atyp>> \o addr.host \o U16Bytes(addr.port), "")

\* faulty variant: only an IPv4 address converts
to_socket_addr_V4Only(addr) ==
    IF addr.atyp = ATYP_IPV4 THEN Some([ip |-> addr.host, port |-> addr.port])
    ELSE None

to_socket_addr(addr) ==
    IF addr.atyp = ATYP_DOMAIN THEN None
    ELSE Some([ip |-> addr.host, port |-> addr.port])

\* faulty variant: the version is checked after the whole greeting was read
HandshakeRequest_read_from_ReadAll(b, st) ==
    IF Len(b) < 2 THEN Short(b, st)
    ELSE LET version == b[1]
             nmethods == b[2] IN
      IF Len(b) < 2 + nmethods THEN Short(b, st)
      ELSE IF version # SOCKS_VERSION
      THEN Err("Unsupported SOCKS version", 2 + nmethods)
      ELSE Ok([version |-> version, methods |-> SubSeq(b, 3, 2 + nmethods)],
              2 + nmethods)

\* protocol.rs 232-249: HandshakeRequest::read_from
HandshakeRequest_read_from(b, st) ==
    IF Len(b) < 1 THEN Short(b, st)
    ELSE LET version == b[1] IN
      IF version # SOCKS_VERSION THEN Err("Unsupported SOCKS version", 1)
      ELSE IF Len(b) < 2 THEN Short(b, st)
      ELSE LET nmethods == b[2] IN
        IF Len(b) < 2 + nmethods THEN Short(b, st)
        ELSE Ok([version |-> version, methods |-> SubSeq(b, 3, 2 + nmethods)],
                2 + nmethods)

\* faulty variant: the subversion byte is read and not checked
UserPassAuth_read_from_AnyVersion(b, st) ==
    IF Len(b) < 2 THEN Short(b, st)
    ELSE LET username_len == b[2] IN
      IF Len(b) < 2 + username_len THEN Short(b, st)
      ELSE LET username == SubSeq(b, 3, 2 + username_len) IN
        IF ~IsUtf8(username)
        THEN Err("Invalid username encoding", 2 + username_len)
        ELSE IF Len(b) < 3 + username_len THEN Short(b, st)
        ELSE LET password_len == b[3 + username_len]
                 pend == 3 + username_len + password_len IN
          IF Len(b) < pend THEN Short(b, st)
          ELSE LET password == SubSeq(b, 4 + username_len, pend) IN
            IF ~IsUtf8(password)
            THEN Err("Invalid password encoding", pend)
            ELSE Ok([username |-> username, password |-> password], pend)

\* protocol.rs 201-228: UserPassAuth::read_from
UserPassAuth_read_from(b, st) ==
    IF Len(b) < 1 THEN Short(b, st)
    ELSE LET version == b[1] IN
      IF version # AUTH_VERSION THEN Err("Invalid authentication version", 1)
      ELSE IF Len(b) < 2 THEN Short(b, st)
      ELSE LET username_len == b[2] IN
        IF Len(b) < 2 + username_len THEN Short(b, st)
        ELSE LET username == SubSeq(b, 3, 2 + username_len) IN
          IF ~IsUtf8(username)
          THEN Err("Invalid username encoding", 2 + username_len)
          ELSE IF Len(b) < 3 + username_len THEN Short(b, st)
          ELSE LET password_len == b[3 + username_len]
                   pend == 3 + username_len + password_len IN
            IF Len(b) < pend THEN Short(b, st)
            ELSE LET password == SubSeq(b, 4 + username_len, pend) IN
              IF ~IsUtf8(password)
              THEN Err("Invalid password encoding", pend)
              ELSE Ok([username |-> username, password |-> password], pend)

Request_read_from(b, st) ==
    IF Len(b) < 1 THEN Short(b, st)
    ELSE LET version == b[1] IN
      IF version # SOCKS_VERSION THEN Err("Unsupported SOCKS version", 1)
      ELSE IF Len(b) < 3 THEN Short(b, st)
      ELSE LET command == b[2]
               a == SocksAddr_read_from(Drop(b, 3), st) IN
        IF a.st = "Pending" THEN Pending
        ELSE IF a.st = "Err" THEN Err(a.err, 3 + a.n)
        ELSE Ok([version |-> version, command |-> command, addr |-> a.val[1]],
                3 + a.n)

\* faulty variant: a reply other than success names the unspecified address
Reply_write_to_Unspecified(reply, addr) ==
    LET a == SocksAddr_write_to(IF reply = REP_SUCCEEDED THEN addr
                                ELSE [atyp |-> ATYP_IPV4, host |-> <<0, 0, 0, 0>>,
                                      port |-> 0]) IN
    Wrote(<<SOCKS_VERSION, reply, 0>> \o a.bytes, a.err)

\* Reply::new followed by Reply::write_to
Reply_write_to(reply, addr) ==
    LET a == SocksAddr_write_to(addr) IN
    Wrote(<<SOCKS_VERSION, reply, 0>> \o a.bytes, a.err)

\* a read on a connection that was reset fails whatever was written before
Recv(r, st) == IF st = "reset" THEN Err("connection reset", 0) ELSE r

\* ----------------------------------------------------------------- state
VARIABLES
    auth_required,   \* Server.auth_required
    credentials,     \* Server.credentials: None or Some(list of <<username, password>>)
    c2s,             \* bytes the client side wrote to the accepted connection
    cState,          \* the accepted connection as the server sees it: open, eof, reset
    rpos,            \* how many bytes of c2s the server has consumed
    s2c,             \* bytes the server wrote to the accepted connection
    s2cShut,         \* the server shut down its write side of the accepted connection
    stream,          \* the accepted connection: "open", or "closed" once dropped
    pc,              \* where the handler task stands
    result,          \* what handle_client returned: "" while running, "Ok", or the error
    handshake,       \* the decoded HandshakeRequest, once read
    choice,          \* the method byte of the selection message the handler issued
    auth,            \* the decoded UserPassAuth, once read
    auth_successful, \* the outcome of the allow-list check, once made
    request,         \* the decoded Request, once read
    reqEnd,          \* rpos right after the request was decoded
    reply,           \* the Reply about to be written, and the error returned after it
    sent,            \* the messages the handler passed to the stream, in order
    lookups,         \* the DNS lookups made
    dest_addr,       \* the socket address to dial
    dials,           \* the dial attempts made, each with its outcome
    server,          \* the upstream connection: "none", "open", "closed"
    s2u,             \* bytes the server wrote to the upstream
    s2uShut,         \* the server shut down its write side of the upstream
    u2s,             \* bytes the upstream wrote
    uState,          \* the upstream connection as the server sees it
    upos,            \* how many bytes of u2s the relay has consumed
    a_to_b,          \* copy_bidirectional's client-to-upstream TransferState
    b_to_a,          \* copy_bidirectional's upstream-to-client TransferState
    bufA,            \* bytes read from the client and not yet written upstream
    bufB,            \* bytes read from the upstream and not yet written to the client
    peerStage,       \* what the peer of the server has sent so far
    nPayload,        \* payload chunks the peer wrote
    nUpstream,       \* chunks the upstream wrote
    client_auth,     \* Client.auth: None or Some(<<username, password>>)
    target,          \* the SocksAddr the client asks for
    transport,       \* "tcp" (Client) or "tls" (TlsClient)
    cpc,             \* where the client engine stands
    cres,            \* what connect returned: "" while running, "Ok", or the error
    cstream,         \* the transport to the proxy: none, open, returned, closed
    pState,          \* the connection to the proxy as the client sees it
    cpos,            \* how many bytes of s2c the client engine has consumed
    response,        \* the method selection the client read
    auth_response,   \* the userpass status the client read
    header,          \* the reply header the client read: <<version, status, reserved>>
    csent,           \* the messages the client engine passed to the stream, in order
    proxyStage,      \* what the peer of the client has sent so far
    listeners,       \* where Server::run and TlsServer::run stand
    tasks,           \* the handler tasks spawned by the accept loops, in order
    accept_errors,   \* failed accepts logged so far
    value,           \* the value handed to an encoder, or the bytes a peer writes
    wire,            \* the bytes on the stream between an encoder and a decoder
    wire_st,         \* that stream as its reader sees it: open or eof
    written,         \* how many bytes the encoder wrote
    write_err,       \* the error the encoder returned, "" if none
    decoder,         \* which read_from ran on the stream
    decoded          \* what it answered, once it returned

cfgVars == <<auth_required, credentials>>
clientConn == <<c2s, cState, rpos, s2c, s2cShut, stream>>
upConn == <<server, s2u, s2uShut, u2s, uState, upos>>
negotiation == <<handshake, choice, auth, auth_successful, request, reqEnd>>
connectVars == <<reply, lookups, dest_addr, dials>>
relayVars == <<a_to_b, b_to_a, bufA, bufB>>
peerVars == <<peerStage, nPayload, nUpstream>>
clientVars == <<client_auth, target, transport, cpc, cres, cstream, pState, cpos,
                response, auth_response, header, csent, proxyStage>>
serverVars == <<cfgVars, rpos, s2cShut, stream, cState, upConn, pc, result, negotiation,
                connectVars, sent, relayVars, peerVars>>
listenerVars == <<listeners, tasks, accept_errors>>
codecVars == <<value, wire, wire_st, written, write_err, decoder, decoded>>
vars == <<cfgVars, clientConn, upConn, pc, result, negotiation, connectVars,
          sent, relayVars, peerVars, clientVars, listenerVars, codecVars>>

CUnread == Drop(s2c, cpos)

Unread == Drop(c2s, rpos)
UpUnread == Drop(u2s, upos)

\* ------------------------------------------------- what the peers can send
U1 == <<97>>
P1 == <<120>>
U2 == <<98>>
P2 == <<121>>
AllowLists == {None, Some(<< <<U1, P1>>, <<U2, P2>> >>)}

UserPassMsg(u, p) == <<AUTH_VERSION, Len(u)>> \o u \o <<Len(p)>> \o p
V4Host == <<127, 0, 0, 1>>
V6Host == <<0, 0, 0, 0, 0, 0, 0, 0, 0, 0, 0, 0, 0, 0, 0, 1>>
Name == <<104, 46, 105>>
Targets == {Ipv4(V4Host, 80), Ipv6(V6Host, 8080), Domain(Name, 443)}
RequestMsg(ver, cmd, addr) == <<ver, cmd, 0>> \o SocksAddr_write_to(addr).bytes

Greetings ==
    { <<SOCKS_VERSION, 1, AUTH_NONE>>, <<SOCKS_VERSION, 1, AUTH_PASSWORD>>,
      <<SOCKS_VERSION, 2, AUTH_NONE, AUTH_PASSWORD>>, <<SOCKS_VERSION, 0>>,
      <<4, 1, AUTH_NONE>> }
AuthMsgs ==
    { UserPassMsg(U1, P1), UserPassMsg(U2, P2), UserPassMsg(U1, P2),
      <<2, 1, 97, 1, 120>>, UserPassMsg(<<255>>, P1), UserPassMsg(U1, <<192, 128>>) }
Requests ==
    { RequestMsg(SOCKS_VERSION, CMD_CONNECT, t) : t \in Targets }
    \cup { RequestMsg(SOCKS_VERSION, CMD_BIND, Ipv4(V4Host, 80)),
           RequestMsg(SOCKS_VERSION, CMD_UDP_ASSOCIATE, Domain(Name, 443)),
           RequestMsg(4, CMD_CONNECT, Ipv4(V4Host, 80)),
           <<SOCKS_VERSION, CMD_CONNECT, 0, 2, 1, 2, 3, 4, 0, 80>>,
           <<SOCKS_VERSION, CMD_CONNECT, 0, ATYP_DOMAIN, 2, 104, 255, 0, 80>> }
PayloadChunk(i) == <<10 * i + 1, 10 * i + 2>>
UpChunk(i) == <<100 + 10 * i + 1, 100 + 10 * i + 2>>

\* the messages a peer at stage k may send next: 1 greeting, 2 userpass, 3 request
PeerMsgs(k) ==
    IF k = 1 THEN Greetings ELSE IF k = 2 THEN AuthMsgs ELSE Requests

\* what the environment answers to a lookup, a dial and local_addr()
Resolved == [ip |-> <<10, 0, 0, 7>>, port |-> 443]
Resolved2 == [ip |-> <<10, 0, 0, 8>>, port |-> 443]
\* lookup_host fails, or returns an iterator over the addresses found
LookupOutcomes ==
    { [ok |-> FALSE, addresses |-> <<>>] }
    \cup { [ok |-> TRUE, addresses |-> a] :
              a \in { <<>>, <<Resolved>>, <<Resolved2, Resolved>> } }
DialOutcomes ==
    {"Ok", "ConnectionRefused", "NetworkUnreachable", "HostUnreachable", "TimedOut"}
LocalAddrs == { Some(Ipv4(<<10, 0, 0, 2>>, 40000)), Some(Ipv6(V6Host, 40001)), None }

\* ------------------------------------------------------------------ Init
HandlerInit ==
    /\ c2s = <<>> /\ cState = "open" /\ rpos = 0
    /\ s2c = <<>> /\ s2cShut = FALSE /\ stream = "open"
    /\ pc = "ReadHandshake" /\ result = ""
    /\ handshake = None /\ choice = None /\ auth = None
    /\ auth_successful = None /\ request = None /\ reqEnd = 0
    /\ reply = None /\ sent = <<>> /\ lookups = <<>>
    /\ dest_addr = None /\ dials = <<>>
    /\ server = "none" /\ s2u = <<>> /\ s2uShut = FALSE
    /\ u2s = <<>> /\ uState = "open" /\ upos = 0
    /\ a_to_b = "Idle" /\ b_to_a = "Idle" /\ bufA = <<>> /\ bufB = <<>>
    /\ peerStage = 1 /\ nPayload = 0 /\ nUpstream = 0

\* no client engine runs: the peer of the server is any sender of bytes
ClientIdle ==
    /\ client_auth = None /\ target = Ipv4(V4Host, 80) /\ transport = "tcp"
    /\ cpc = "Idle" /\ cres = "" /\ cstream = "none" /\ pState = "open" /\ cpos = 0
    /\ response = None /\ auth_response = None /\ header = None
    /\ csent = <<>> /\ proxyStage = 1

\* no accept loop runs: one accepted connection is looked at
ListenerIdle ==
    /\ listeners = [l \in {"tcp", "tls"} |-> "Idle"]
    /\ tasks = <<>>
    /\ accept_errors = 0

\* no codec is looked at on its own
CodecIdle ==
    /\ value = None /\ wire = <<>> /\ wire_st = "open" /\ written = 0
    /\ write_err = "" /\ decoder = "" /\ decoded = None

Init ==
    /\ auth_required \in BOOLEAN
    /\ credentials \in AllowLists
    /\ HandlerInit
    /\ ClientIdle
    /\ ListenerIdle
    /\ CodecIdle

\* ------------------------------------------------------- the server handler
\* faulty variant: the upstream stream outlives the handler
Finish_LeakUpstream(res) ==
    /\ pc' = "Closed"
    /\ result' = res
    /\ stream' = "closed"
    /\ server' = server

\* handle_client returns res: the accepted stream and, if handle_connect had
\* opened it, the upstream stream go out of scope
Finish(res) ==
    /\ pc' = "Closed"
    /\ result' = res
    /\ stream' = "closed"
    /\ server' = IF server = "open" THEN "closed" ELSE server

\* stream.write_all(bytes) on the accepted connection: whether it succeeds
CanWrite == cState # "reset"

\* faulty variant: no-auth is selected whenever the peer offers it
SelectMethod_PreferNone(required, methods) ==
    IF Contains(methods, AUTH_NONE) THEN AUTH_NONE
    ELSE IF required /\ Contains(methods, AUTH_PASSWORD) THEN AUTH_PASSWORD
    ELSE AUTH_NOT_ACCEPTABLE

\* faulty variant: the no-auth branch is taken without looking at auth_required
SelectMethod_NoAuthFallback(required, methods) ==
    IF required /\ Contains(methods, AUTH_PASSWORD) THEN AUTH_PASSWORD
    ELSE IF Contains(methods, AUTH_NONE) THEN AUTH_NONE
    ELSE AUTH_NOT_ACCEPTABLE

\* server.rs 86-122: the method the handler selects for a greeting
SelectMethod(required, methods) ==
    IF required /\ Contains(methods, AUTH_PASSWORD) THEN AUTH_PASSWORD
    ELSE IF required THEN AUTH_NOT_ACCEPTABLE
    ELSE IF Contains(methods, AUTH_NONE) THEN AUTH_NONE
    ELSE AUTH_NOT_ACCEPTABLE

\* faulty variant: only the username is compared
CheckCredentials_UsernameOnly(creds, a) ==
    IF creds # None
    THEN \E i \in 1..Len(creds[1]) : creds[1][i][1] = a.username
    ELSE FALSE

\* faulty variant: without an allow-list every credential is accepted
CheckCredentials_NoListAllows(creds, a) ==
    IF creds # None
    THEN \E i \in 1..Len(creds[1]) :
            creds[1][i][1] = a.username /\ creds[1][i][2] = a.password
    ELSE TRUE

\* faulty variant: the username and the password are looked up separately
CheckCredentials_AnyEntry(creds, a) ==
    IF creds # None
    THEN /\ \E i \in 1..Len(creds[1]) : creds[1][i][1] = a.username
         /\ \E i \in 1..Len(creds[1]) : creds[1][i][2] = a.password
    ELSE FALSE

\* server.rs 94-101: the allow-list check
CheckCredentials(creds, a) ==
    IF creds # None
    THEN \E i \in 1..Len(creds[1]) :
            creds[1][i][1] = a.username /\ creds[1][i][2] = a.password
    ELSE FALSE

\* faulty variant: the early return after a failed check is missing
AfterStatus_NoReturn(good) == "ReadRequest"

\* server.rs 103-110: where the handler goes after the allow-list check
AfterStatus(good) == IF good THEN "ReadRequest" ELSE "Closed"

\* faulty variant: only BIND is rejected
IsConnect_NotBind(command) == command # CMD_BIND

\* server.rs 129-131: the one command that enters handle_connect
IsConnect(command) == command = CMD_CONNECT

\* faulty variant: a dial that timed out is answered as a success
ReplyCodeFor_TimeoutOk(kind) ==
    IF kind = "ConnectionRefused" THEN REP_CONNECTION_REFUSED
    ELSE IF kind = "NetworkUnreachable" THEN REP_NETWORK_UNREACHABLE
    ELSE IF kind = "HostUnreachable" THEN REP_HOST_UNREACHABLE
    ELSE IF kind = "TimedOut" THEN REP_SUCCEEDED
    ELSE REP_NETWORK_UNREACHABLE

\* faulty variant: host unreachable falls into the default arm
ReplyCodeFor_NoHost(kind) ==
    IF kind = "ConnectionRefused" THEN REP_CONNECTION_REFUSED
    ELSE REP_NETWORK_UNREACHABLE

\* server.rs 207-212: the reply code for a failed dial
ReplyCodeFor(kind) ==
    IF kind = "ConnectionRefused" THEN REP_CONNECTION_REFUSED
    ELSE IF kind = "NetworkUnreachable" THEN REP_NETWORK_UNREACHABLE
    ELSE IF kind = "HostUnreachable" THEN REP_HOST_UNREACHABLE
    ELSE REP_NETWORK_UNREACHABLE

\* server.rs 82: HandshakeRequest::read_from(&mut stream).await?
ReadHandshake ==
    /\ pc = "ReadHandshake"
    /\ LET r == Recv(HandshakeRequest_read_from(Unread, cState), cState) IN
       /\ r.st # "Pending"
       /\ rpos' = rpos + r.n
       /\ IF r.st = "Ok"
          THEN /\ handshake' = r.val
               /\ pc' = "SelectMethod"
               /\ UNCHANGED <<result, stream, server>>
          ELSE /\ Finish(r.err)
               /\ UNCHANGED handshake
    /\ UNCHANGED <<codecVars, listenerVars, clientVars, cfgVars, c2s, cState, s2c, s2cShut, s2u, s2uShut, u2s, uState, upos,
                   choice, auth, auth_successful, request, reqEnd, connectVars, sent,
                   relayVars, peerVars>>

\* server.rs 86-122: the selection message, and the abort on 0xFF
WriteChoice ==
    /\ pc = "SelectMethod"
    /\ LET m == SelectMethod(auth_required, handshake[1].methods)
           msg == <<SOCKS_VERSION, m>> IN
       /\ choice' = Some(m)
       /\ sent' = Append(sent, [kind |-> "choice", bytes |-> msg, ok |-> CanWrite])
       /\ IF ~CanWrite
          THEN Finish("connection reset") /\ UNCHANGED s2c
          ELSE /\ s2c' = s2c \o msg
               /\ IF m = AUTH_NOT_ACCEPTABLE
                  THEN Finish("No acceptable auth methods")
                  ELSE /\ pc' = IF m = AUTH_PASSWORD THEN "ReadAuth" ELSE "ReadRequest"
                       /\ UNCHANGED <<result, stream, server>>
    /\ UNCHANGED <<codecVars, listenerVars, clientVars, cfgVars, c2s, cState, rpos, s2cShut, s2u, s2uShut, u2s, uState, upos,
                   handshake, auth, auth_successful, request, reqEnd, connectVars,
                   relayVars, peerVars>>

\* server.rs 91: UserPassAuth::read_from(&mut stream).await?
ReadAuth ==
    /\ pc = "ReadAuth"
    /\ LET r == Recv(UserPassAuth_read_from(Unread, cState), cState) IN
       /\ r.st # "Pending"
       /\ rpos' = rpos + r.n
       /\ IF r.st = "Ok"
          THEN /\ auth' = r.val
               /\ pc' = "Validate"
               /\ UNCHANGED <<result, stream, server>>
          ELSE /\ Finish(r.err)
               /\ UNCHANGED auth
    /\ UNCHANGED <<codecVars, listenerVars, clientVars, cfgVars, c2s, cState, s2c, s2cShut, s2u, s2uShut, u2s, uState, upos,
                   handshake, choice, auth_successful, request, reqEnd, connectVars, sent,
                   relayVars, peerVars>>

\* server.rs 93-110: the allow-list check and the status message
WriteAuthStatus ==
    /\ pc = "Validate"
    /\ LET good == CheckCredentials(credentials, auth[1])
           msg == <<AUTH_VERSION, IF good THEN AUTH_SUCCESS ELSE AUTH_FAILURE>> IN
       /\ auth_successful' = Some(good)
       /\ sent' = Append(sent, [kind |-> "status", bytes |-> msg, ok |-> CanWrite])
       /\ IF ~CanWrite
          THEN Finish("connection reset") /\ UNCHANGED s2c
          ELSE /\ s2c' = s2c \o msg
               /\ IF AfterStatus(good) = "Closed"
                  THEN Finish("Authentication failed")
                  ELSE /\ pc' = AfterStatus(good)
                       /\ UNCHANGED <<result, stream, server>>
    /\ UNCHANGED <<codecVars, listenerVars, clientVars, cfgVars, c2s, cState, rpos, s2cShut, s2u, s2uShut, u2s, uState, upos,
                   handshake, choice, auth, request, reqEnd, connectVars,
                   relayVars, peerVars>>

\* server.rs 125-137 and 140-173: the request is decoded and dispatched; a CONNECT
\* enters handle_connect, whose first await is the lookup or the dial
ReadRequest ==
    /\ pc = "ReadRequest"
    /\ LET r == Recv(Request_read_from(Unread, cState), cState) IN
       /\ r.st # "Pending"
       /\ rpos' = rpos + r.n
       /\ reqEnd' = rpos + r.n
       /\ IF r.st # "Ok"
          THEN /\ Finish(r.err)
               /\ UNCHANGED <<request, reply, dest_addr>>
          ELSE /\ request' = r.val
               /\ UNCHANGED <<result, stream, server>>
               /\ LET req == r.val[1] IN
                  IF ~IsConnect(req.command)
                  THEN /\ reply' = Some([reply |-> REP_COMMAND_NOT_SUPPORTED,
                                         addr |-> req.addr,
                                         then |-> "Command not supported"])
                       /\ pc' = "WriteReply"
                       /\ UNCHANGED dest_addr
                  ELSE IF req.addr.atyp = ATYP_DOMAIN
                  THEN /\ pc' = "Lookup"
                       /\ UNCHANGED <<reply, dest_addr>>
                  ELSE IF to_socket_addr(req.addr) # None
                  THEN /\ dest_addr' = to_socket_addr(req.addr)
                       /\ pc' = "Connect"
                       /\ UNCHANGED reply
                  ELSE /\ reply' = Some([reply |-> REP_ADDRESS_TYPE_NOT_SUPPORTED,
                                         addr |-> req.addr,
                                         then |-> "Address type not supported"])
                       /\ pc' = "WriteReply"
                       /\ UNCHANGED dest_addr
    /\ UNCHANGED <<codecVars, listenerVars, clientVars, cfgVars, c2s, cState, s2c, s2cShut, s2u, s2uShut, u2s, uState, upos,
                   handshake, choice, auth, auth_successful, lookups, dials, sent,
                   relayVars, peerVars>>

\* faulty variant: the last address found is taken
FirstAddress_Last(addresses) ==
    IF addresses = <<>> THEN None ELSE Some(addresses[Len(addresses)])

\* server.rs 147-149: addresses.next()
FirstAddress(addresses) ==
    IF addresses = <<>> THEN None ELSE Some(Head(addresses))

\* server.rs 146-161: tokio::net::lookup_host for a domain target
Lookup ==
    /\ pc = "Lookup"
    /\ \E o \in LookupOutcomes :
       /\ lookups' = Append(lookups, [name |-> request[1].addr.host, outcome |-> o])
       /\ IF o.ok /\ FirstAddress(o.addresses) # None
          THEN /\ dest_addr' = FirstAddress(o.addresses)
               /\ pc' = "Connect"
               /\ UNCHANGED reply
          ELSE /\ reply' = Some([reply |-> REP_HOST_UNREACHABLE,
                                 addr |-> request[1].addr,
                                 then |-> "Could not resolve domain"])
               /\ pc' = "WriteReply"
               /\ UNCHANGED dest_addr
    /\ UNCHANGED <<codecVars, listenerVars, clientVars, cfgVars, clientConn, upConn, result, negotiation, dials, sent,
                   relayVars, peerVars>>

\* faulty variant: the requested address is echoed whatever local_addr answers
BindAddr_Requested(la, addr) == addr

\* server.rs 179-188: the address of the success reply: local_addr() of the
\* upstream socket, or the requested address if that call fails
BindAddr(la, addr) == IF la # None THEN la[1] ELSE addr

\* server.rs 176-190 and 206-214: TcpStream::connect(dest_addr), then the reply is built
Connect ==
    /\ pc = "Connect"
    /\ \E o \in DialOutcomes : \E la \in IF o = "Ok" THEN LocalAddrs ELSE {None} :
       /\ dials' = Append(dials, [to |-> dest_addr[1], outcome |-> o, local |-> la])
       /\ IF o = "Ok"
          THEN /\ server' = "open"
               /\ reply' = Some([reply |-> REP_SUCCEEDED,
                                  addr |-> BindAddr(la, request[1].addr),
                                  then |-> ""])
          ELSE /\ reply' = Some([reply |-> ReplyCodeFor(o),
                                 addr |-> request[1].addr,
                                 then |-> o])
               /\ UNCHANGED server
    /\ pc' = "WriteReply"
    /\ UNCHANGED <<codecVars, listenerVars, clientVars, cfgVars, clientConn, s2u, s2uShut, u2s, uState, upos, result,
                   negotiation, lookups, dest_addr, sent, relayVars, peerVars>>

\* server.rs 134, 152, 158, 169, 191, 215: reply.write_to(&mut stream).await?, then
\* the relay starts (191-194) or the handler returns its error
WriteReply ==
    /\ pc = "WriteReply"
    /\ LET rep == reply[1]
           w == Reply_write_to(rep.reply, rep.addr)
           good == CanWrite /\ w.err = "" IN
       /\ sent' = Append(sent, [kind |-> "reply", bytes |-> w.bytes, ok |-> good])
       /\ s2c' = IF CanWrite THEN s2c \o w.bytes ELSE s2c
       /\ IF ~CanWrite THEN Finish("connection reset") /\ UNCHANGED relayVars
          ELSE IF w.err # "" THEN Finish(w.err) /\ UNCHANGED relayVars
          ELSE IF rep.then # "" THEN Finish(rep.then) /\ UNCHANGED relayVars
          ELSE /\ pc' = "Relay"
               /\ a_to_b' = "Running" /\ b_to_a' = "Running"
               /\ UNCHANGED <<bufA, bufB, result, stream, server>>
    /\ UNCHANGED <<codecVars, listenerVars, clientVars, cfgVars, c2s, cState, rpos, s2cShut, s2u, s2uShut, u2s, uState, upos,
                   negotiation, connectVars, peerVars>>

\* ------------------------------------------------------------- the relay
\* server.rs 194-204: io::copy_bidirectional(&mut client, &mut server). Each
\* direction is Running (read into the copy buffer, write it out), then
\* ShuttingDown once its reader is at end-of-stream and the buffer is flushed (it
\* shuts down the write side of its destination), then Done. An I/O error in
\* either direction ends the call at once; otherwise it returns when both are Done.
Min(a, b) == IF a < b THEN a ELSE b

\* faulty variant: the buffer position is advanced one byte short
Remaining_OffByOne(buf, n) == SubSeq(buf, n, Len(buf))

\* faulty variant: the call returns when one direction is done
BothDone_Either(a, b) == a = "Done" \/ b = "Done"

\* what one poll_read takes from the unread bytes, and one poll_write from the buffer
ReadSizes(unread, buf) == 1..Min(Len(unread), CopyBuf - Len(buf))
WriteSizes(buf) == 1..Len(buf)
\* what a write of n bytes of buf adds to the destination, and leaves in the buffer
Written(buf, n) == Take(buf, n)
Remaining(buf, n) == Drop(buf, n)
\* copy_bidirectional is complete
BothDone(a, b) == a = "Done" /\ b = "Done"

RelayReadA ==
    /\ pc = "Relay" /\ a_to_b = "Running" /\ cState # "reset"
    /\ \E n \in ReadSizes(Unread, bufA) :
         /\ bufA' = bufA \o SubSeq(Unread, 1, n)
         /\ rpos' = rpos + n
    /\ UNCHANGED <<codecVars, listenerVars, clientVars, cfgVars, c2s, cState, s2c, s2cShut, stream, upConn, pc, result,
                   negotiation, connectVars, sent, a_to_b, b_to_a, bufB, peerVars>>

RelayWriteA ==
    /\ pc = "Relay" /\ a_to_b = "Running" /\ bufA # <<>>
    /\ IF uState = "reset"
       THEN /\ Finish("connection reset")
            /\ UNCHANGED <<s2u, bufA>>
       ELSE /\ \E n \in WriteSizes(bufA) :
                 /\ s2u' = s2u \o Written(bufA, n)
                 /\ bufA' = Remaining(bufA, n)
            /\ UNCHANGED <<pc, result, stream, server>>
    /\ UNCHANGED <<codecVars, listenerVars, clientVars, cfgVars, c2s, cState, rpos, s2c, s2cShut, s2uShut, u2s, uState, upos,
                   negotiation, connectVars, sent, a_to_b, b_to_a, bufB, peerVars>>

RelayEofA ==
    /\ pc = "Relay" /\ a_to_b = "Running"
    /\ cState = "eof" /\ Unread = <<>> /\ bufA = <<>>
    /\ a_to_b' = "ShuttingDown"
    /\ UNCHANGED <<codecVars, listenerVars, clientVars, cfgVars, clientConn, upConn, pc, result, negotiation, connectVars,
                   sent, b_to_a, bufA, bufB, peerVars>>

RelayShutdownA ==
    /\ pc = "Relay" /\ a_to_b = "ShuttingDown"
    /\ IF uState = "reset"
       THEN /\ Finish("connection reset")
            /\ UNCHANGED <<s2uShut, a_to_b>>
       ELSE /\ s2uShut' = TRUE
            /\ a_to_b' = "Done"
            /\ UNCHANGED <<pc, result, stream, server>>
    /\ UNCHANGED <<codecVars, listenerVars, clientVars, cfgVars, c2s, cState, rpos, s2c, s2cShut, s2u, u2s, uState, upos,
                   negotiation, connectVars, sent, b_to_a, bufA, bufB, peerVars>>

RelayErrorA ==
    /\ pc = "Relay" /\ a_to_b = "Running" /\ cState = "reset"
    /\ Finish("connection reset")
    /\ UNCHANGED <<codecVars, listenerVars, clientVars, cfgVars, c2s, cState, rpos, s2c, s2cShut, s2u, s2uShut, u2s, uState,
                   upos, negotiation, connectVars, sent, relayVars, peerVars>>

RelayReadB ==
    /\ pc = "Relay" /\ b_to_a = "Running" /\ uState # "reset"
    /\ \E n \in ReadSizes(UpUnread, bufB) :
         /\ bufB' = bufB \o SubSeq(UpUnread, 1, n)
         /\ upos' = upos + n
    /\ UNCHANGED <<codecVars, listenerVars, clientVars, cfgVars, clientConn, server, s2u, s2uShut, u2s, uState, pc, result,
                   negotiation, connectVars, sent, a_to_b, b_to_a, bufA, peerVars>>

RelayWriteB ==
    /\ pc = "Relay" /\ b_to_a = "Running" /\ bufB # <<>>
    /\ IF cState = "reset"
       THEN /\ Finish("connection reset")
            /\ UNCHANGED <<s2c, bufB>>
       ELSE /\ \E n \in WriteSizes(bufB) :
                 /\ s2c' = s2c \o Written(bufB, n)
                 /\ bufB' = Remaining(bufB, n)
            /\ UNCHANGED <<pc, result, stream, server>>
    /\ UNCHANGED <<codecVars, listenerVars, clientVars, cfgVars, c2s, cState, rpos, s2cShut, s2u, s2uShut, u2s, uState, upos,
                   negotiation, connectVars, sent, a_to_b, b_to_a, bufA, peerVars>>

RelayEofB ==
    /\ pc = "Relay" /\ b_to_a = "Running"
    /\ uState = "eof" /\ UpUnread = <<>> /\ bufB = <<>>
    /\ b_to_a' = "ShuttingDown"
    /\ UNCHANGED <<codecVars, listenerVars, clientVars, cfgVars, clientConn, upConn, pc, result, negotiation, connectVars,
                   sent, a_to_b, bufA, bufB, peerVars>>

RelayShutdownB ==
    /\ pc = "Relay" /\ b_to_a = "ShuttingDown"
    /\ IF cState = "reset"
       THEN /\ Finish("connection reset")
            /\ UNCHANGED <<s2cShut, b_to_a>>
       ELSE /\ s2cShut' = TRUE
            /\ b_to_a' = "Done"
            /\ UNCHANGED <<pc, result, stream, server>>
    /\ UNCHANGED <<codecVars, listenerVars, clientVars, cfgVars, c2s, cState, rpos, s2c, s2u, s2uShut, u2s, uState, upos,
                   negotiation, connectVars, sent, a_to_b, bufA, bufB, peerVars>>

RelayErrorB ==
    /\ pc = "Relay" /\ b_to_a = "Running" /\ uState = "reset"
    /\ Finish("connection reset")
    /\ UNCHANGED <<codecVars, listenerVars, clientVars, cfgVars, c2s, cState, rpos, s2c, s2cShut, s2u, s2uShut, u2s, uState,
                   upos, negotiation, connectVars, sent, relayVars, peerVars>>

\* server.rs 195-199: copy_bidirectional returned Ok: both directions are Done
RelayDone ==
    /\ pc = "Relay" /\ BothDone(a_to_b, b_to_a)
    /\ Finish("Ok")
    /\ UNCHANGED <<codecVars, listenerVars, clientVars, cfgVars, c2s, cState, rpos, s2c, s2cShut, s2u, s2uShut, u2s, uState,
                   upos, negotiation, connectVars, sent, relayVars, peerVars>>

\* ------------------------------------------------------------ the peer
\* the peer writes its next message; it may skip ahead (a request with no greeting)
PeerSend ==
    /\ stream = "open" /\ cState = "open"
    /\ \E k \in peerStage..3 : \E m \in PeerMsgs(k) :
         /\ c2s' = c2s \o m
         /\ peerStage' = k + 1
    /\ UNCHANGED <<codecVars, listenerVars, clientVars, cfgVars, cState, rpos, s2c, s2cShut, stream, upConn, pc, result,
                   negotiation, connectVars, sent, relayVars, nPayload, nUpstream>>

\* the peer closes its side in the middle of a message
PeerSendTruncated ==
    /\ stream = "open" /\ cState = "open"
    /\ \E k \in peerStage..3 : \E m \in PeerMsgs(k) : \E n \in 1..(Len(m) - 1) :
         /\ c2s' = c2s \o Take(m, n)
         /\ peerStage' = 5
    /\ cState' = "eof"
    /\ UNCHANGED <<codecVars, listenerVars, clientVars, cfgVars, rpos, s2c, s2cShut, stream, upConn, pc, result,
                   negotiation, connectVars, sent, relayVars, nPayload, nUpstream>>

\* the peer writes payload after its request
PeerPayload ==
    /\ stream = "open" /\ cState = "open"
    /\ peerStage = 4 /\ nPayload < MaxPayload
    /\ c2s' = c2s \o PayloadChunk(nPayload + 1)
    /\ nPayload' = nPayload + 1
    /\ UNCHANGED <<codecVars, listenerVars, clientVars, cfgVars, cState, rpos, s2c, s2cShut, stream, upConn, pc, result,
                   negotiation, connectVars, sent, relayVars, peerStage, nUpstream>>

\* the peer shuts down its write side
PeerShutdown ==
    /\ stream = "open" /\ cState = "open"
    /\ cState' = "eof"
    /\ UNCHANGED <<codecVars, listenerVars, clientVars, cfgVars, c2s, rpos, s2c, s2cShut, stream, upConn, pc, result,
                   negotiation, connectVars, sent, relayVars, peerVars>>

\* the accepted connection is reset
PeerReset ==
    /\ stream = "open" /\ cState # "reset"
    /\ cState' = "reset"
    /\ UNCHANGED <<codecVars, listenerVars, clientVars, cfgVars, c2s, rpos, s2c, s2cShut, stream, upConn, pc, result,
                   negotiation, connectVars, sent, relayVars, peerVars>>

\* ---------------------------------------------------------- the upstream
UpSend ==
    /\ server = "open" /\ uState = "open" /\ nUpstream < MaxUpstream
    /\ u2s' = u2s \o UpChunk(nUpstream + 1)
    /\ nUpstream' = nUpstream + 1
    /\ UNCHANGED <<codecVars, listenerVars, clientVars, cfgVars, clientConn, server, s2u, s2uShut, uState, upos, pc, result,
                   negotiation, connectVars, sent, relayVars, peerStage, nPayload>>

UpShutdown ==
    /\ server = "open" /\ uState = "open"
    /\ uState' = "eof"
    /\ UNCHANGED <<codecVars, listenerVars, clientVars, cfgVars, clientConn, server, s2u, s2uShut, u2s, upos, pc, result,
                   negotiation, connectVars, sent, relayVars, peerVars>>

UpReset ==
    /\ server = "open" /\ uState # "reset"
    /\ uState' = "reset"
    /\ UNCHANGED <<codecVars, listenerVars, clientVars, cfgVars, clientConn, server, s2u, s2uShut, u2s, upos, pc, result,
                   negotiation, connectVars, sent, relayVars, peerVars>>

Next ==
    \/ ReadHandshake \/ WriteChoice \/ ReadAuth \/ WriteAuthStatus
    \/ ReadRequest \/ Lookup \/ Connect \/ WriteReply
    \/ RelayReadA \/ RelayWriteA \/ RelayEofA \/ RelayShutdownA \/ RelayErrorA
    \/ RelayReadB \/ RelayWriteB \/ RelayEofB \/ RelayShutdownB \/ RelayErrorB
    \/ RelayDone
    \/ UpSend \/ UpShutdown \/ UpReset
    \/ PeerSend \/ PeerSendTruncated \/ PeerPayload \/ PeerShutdown \/ PeerReset

Spec == Init /\ [][Next]_vars

\* The handler under a fair schedule. The handler is a task of the runtime
\* (server.rs 55-61, tokio::spawn): a step of it that is possible is taken,
\* and a lookup or a dial it awaits returns. The peer does not stay silent on
\* an open connection for ever: it writes, or shuts down its side; so does the
\* upstream. A reset is possible and is not required of either. The three
\* together never stop while one of these steps is possible.
SpecLive ==
    /\ Init /\ [][Next]_vars
    /\ WF_vars(\/ ReadHandshake \/ WriteChoice \/ ReadAuth \/ WriteAuthStatus
               \/ ReadRequest \/ Lookup \/ Connect \/ WriteReply
               \/ RelayReadA \/ RelayWriteA \/ RelayEofA \/ RelayShutdownA
               \/ RelayErrorA \/ RelayReadB \/ RelayWriteB \/ RelayEofB
               \/ RelayShutdownB \/ RelayErrorB \/ RelayDone
               \/ PeerSend \/ PeerSendTruncated \/ PeerPayload \/ PeerShutdown
               \/ UpSend \/ UpShutdown)

\* ====================================================== the client engine
\* Client::connect (client.rs 62-78) and TlsClient::connect_to_domain /
\* connect_to_target (tls_client.rs 50-151) run the same handshake and
\* request_connection on the transport they opened.

\* faulty variant: TlsClient builds its Client with Client::new whatever its auth
TlsInnerAuth_NoAuth(a) == None

\* tls_client.rs 74-82 and 132-140: the auth of the Client that TlsClient builds
\* to run the handshake: with_auth(username, password) or new
TlsInnerAuth(a) == IF a # None THEN Some(<<a[1][1], a[1][2]>>) ELSE None

\* self.auth of the Client whose handshake and request_connection run
EngineAuth == IF transport = "tls" THEN TlsInnerAuth(client_auth) ELSE client_auth

\* faulty variant: two methods are announced and one is written
Greeting_ShortList(a) ==
    IF a # None THEN <<SOCKS_VERSION, 2, AUTH_NONE, AUTH_PASSWORD>>
    ELSE <<SOCKS_VERSION, 2, AUTH_NONE>>

\* faulty variant: userpass is offered whether or not credentials are configured
Greeting_Both(a) == <<SOCKS_VERSION, 2, AUTH_NONE, AUTH_PASSWORD>>

\* client.rs 88-92: the greeting
Greeting(a) ==
    IF a # None THEN <<SOCKS_VERSION, 2, AUTH_NONE, AUTH_PASSWORD>>
    ELSE <<SOCKS_VERSION, 1, AUTH_NONE>>

\* faulty variant: the username's length is written in front of the password too
UserPassAuth_write_to_OneLen(username, password) ==
    IF Len(username) > 255 THEN Wrote(<<AUTH_VERSION>>, "Username too long")
    ELSE IF Len(password) > 255
    THEN Wrote(<<AUTH_VERSION, Len(username)>> \o username, "Password too long")
    ELSE Wrote(<<AUTH_VERSION, Len(username)>> \o username
                  \o <<Len(username)>> \o password, "")

\* protocol.rs 170-199: UserPassAuth::write_to. Each write_u8 / write_all goes to
\* the stream as it is reached, so what was written before a length check
\* fails stays written.
UserPassAuth_write_to(username, password) ==
    IF Len(username) > 255 THEN Wrote(<<AUTH_VERSION>>, "Username too long")
    ELSE IF Len(password) > 255
    THEN Wrote(<<AUTH_VERSION, Len(username)>> \o username, "Password too long")
    ELSE Wrote(<<AUTH_VERSION, Len(username)>> \o username
                  \o <<Len(password)>> \o password, "")

\* client.rs 173-179: the connect request
ConnectRequest_write(addr) ==
    LET a == SocksAddr_write_to(addr) IN
    Wrote(<<SOCKS_VERSION, CMD_CONNECT, 0>> \o a.bytes, a.err)

\* read_exact(&mut [0u8; 2])
Read2(b, st) == IF Len(b) < 2 THEN Short(b, st) ELSE Ok(Take(b, 2), 2)

\* faulty variant: userpass without credentials falls through to the request
OnChoice_Fallback(resp, a) ==
    IF resp[1] # SOCKS_VERSION THEN "Invalid SOCKS version from proxy"
    ELSE IF resp[2] = AUTH_NONE THEN "SendRequest"
    ELSE IF resp[2] = AUTH_PASSWORD
    THEN IF a # None THEN "SendAuth" ELSE "SendRequest"
    ELSE IF resp[2] = 255 THEN "No acceptable authentication methods"
    ELSE "Unknown authentication method"

\* client.rs 101-164: what the engine does with the server's choice: the next
\* step, or the error it returns
OnChoice(resp, a) ==
    IF resp[1] # SOCKS_VERSION THEN "Invalid SOCKS version from proxy"
    ELSE IF resp[2] = AUTH_NONE THEN "SendRequest"
    ELSE IF resp[2] = AUTH_PASSWORD
    THEN IF a # None THEN "SendAuth"
         ELSE "Server requested auth but no credentials provided"
    ELSE IF resp[2] = 255 THEN "No acceptable authentication methods"
    ELSE "Unknown authentication method"

\* faulty variant: the subversion byte of the status is not checked
OnAuthResponse_NoVersion(resp) ==
    IF resp[2] = AUTH_SUCCESS THEN "SendRequest"
    ELSE "Authentication failed"

\* faulty variant: any status of subversion 1 counts as success
OnAuthResponse_AnyStatus(resp) ==
    IF resp[1] # AUTH_VERSION THEN "Invalid auth protocol version"
    ELSE "SendRequest"

\* client.rs 125-141: what the engine does with the userpass status
OnAuthResponse(resp) ==
    IF resp[1] # AUTH_VERSION THEN "Invalid auth protocol version"
    ELSE IF resp[2] = AUTH_SUCCESS THEN "SendRequest"
    ELSE "Authentication failed"

\* client.rs 195-204: the message for a reply code that is not REP_SUCCEEDED
ErrorMsg(status) ==
    IF status = REP_GENERAL_FAILURE THEN "General failure"
    ELSE IF status = 2 THEN "Network unreachable"
    ELSE IF status = 3 THEN "Host unreachable"
    ELSE IF status = 4 THEN "Connection refused by destination"
    ELSE IF status = 5 THEN "TTL expired"
    ELSE IF status = 6 THEN "Command not supported / protocol error"
    ELSE IF status = 7 THEN "Address type not supported"
    ELSE "Unknown error"

\* faulty variant: the version byte of the reply is not checked
CheckHeader_NoVersion(version, status) ==
    IF status # REP_SUCCEEDED THEN ErrorMsg(status)
    ELSE ""

\* client.rs 187-207: the check of the reply header: "" when it passes
CheckHeader(version, status) ==
    IF version # SOCKS_VERSION THEN "Invalid protocol version in response"
    ELSE IF status # REP_SUCCEEDED THEN ErrorMsg(status)
    ELSE ""

\* faulty variant: the port after a domain name is left in the stream
SkipBoundAddr_NoPort(b, st) ==
    IF Len(b) < 1 THEN Short(b, st)
    ELSE LET addr_type == b[1] IN
      IF addr_type = 1 THEN
          IF Len(b) < 7 THEN Short(b, st) ELSE Ok(addr_type, 7)
      ELSE IF addr_type = 3 THEN
          IF Len(b) < 2 THEN Short(b, st)
          ELSE IF Len(b) < 2 + b[2] THEN Short(b, st)
          ELSE Ok(addr_type, 2 + b[2])
      ELSE IF addr_type = 4 THEN
          IF Len(b) < 19 THEN Short(b, st) ELSE Ok(addr_type, 19)
      ELSE Err("Invalid address type in response", 1)

\* client.rs 210-237: the bound address is read and dropped
SkipBoundAddr(b, st) ==
    IF Len(b) < 1 THEN Short(b, st)
    ELSE LET addr_type == b[1] IN
      IF addr_type = 1 THEN
          IF Len(b) < 7 THEN Short(b, st) ELSE Ok(addr_type, 7)
      ELSE IF addr_type = 3 THEN
          IF Len(b) < 2 THEN Short(b, st)
          ELSE IF Len(b) < 4 + b[2] THEN Short(b, st)
          ELSE Ok(addr_type, 4 + b[2])
      ELSE IF addr_type = 4 THEN
          IF Len(b) < 19 THEN Short(b, st) ELSE Ok(addr_type, 19)
      ELSE Err("Invalid address type in response", 1)

\* client.rs 183-237: the reply is read: three header bytes, the checks, the address
ReadReply(b, st) ==
    IF Len(b) < 3 THEN Short(b, st)
    ELSE LET e == CheckHeader(b[1], b[2]) IN
      IF e # "" THEN Err(e, 3)
      ELSE LET a == SkipBoundAddr(Drop(b, 3), st) IN
        IF a.st = "Pending" THEN Pending
        ELSE IF a.st = "Err" THEN Err(a.err, 3 + a.n)
        ELSE Ok(Take(b, 3), 3 + a.n)

\* faulty variant: the transport stays open after the error
CFail_KeepOpen(e) ==
    /\ cpc' = "Failed"
    /\ cres' = e
    /\ cstream' = cstream

\* connect returns an error: the transport is dropped with the call's frame
CFail(e) ==
    /\ cpc' = "Failed"
    /\ cres' = e
    /\ cstream' = IF cstream = "open" THEN "closed" ELSE cstream

CCanWrite == pState # "reset"

\* client.rs 64-65, tls_client.rs 57-69: the transport to the proxy is opened
CliOpen ==
    /\ cpc = "Connecting"
    /\ \E o \in IF transport = "tls"
                THEN {"Ok", "ConnectionRefused", "Invalid domain name", "tls handshake failed"}
                ELSE {"Ok", "ConnectionRefused"} :
         IF o = "Ok"
         THEN cstream' = "open" /\ cpc' = "SendGreeting" /\ UNCHANGED cres
         ELSE CFail(o)
    /\ UNCHANGED <<codecVars, listenerVars, serverVars, c2s, s2c, client_auth, target, transport, pState, cpos,
                   response, auth_response, header, csent, proxyStage>>

\* client.rs 88-95: stream.write_all(&buf).await?
CliSendGreeting ==
    /\ cpc = "SendGreeting"
    /\ LET msg == Greeting(EngineAuth) IN
       /\ csent' = Append(csent, [kind |-> "greeting", bytes |-> msg, ok |-> CCanWrite])
       /\ IF CCanWrite
          THEN c2s' = c2s \o msg /\ cpc' = "ReadChoice" /\ UNCHANGED <<cres, cstream>>
          ELSE CFail("connection reset") /\ UNCHANGED c2s
    /\ UNCHANGED <<codecVars, listenerVars, serverVars, s2c, client_auth, target, transport, pState, cpos,
                   response, auth_response, header, proxyStage>>

\* client.rs 97-164: the server's choice is read and acted on
CliReadChoice ==
    /\ cpc = "ReadChoice"
    /\ LET r == Recv(Read2(CUnread, pState), pState) IN
       /\ r.st # "Pending"
       /\ cpos' = cpos + r.n
       /\ IF r.st = "Err" THEN CFail(r.err) /\ UNCHANGED response
          ELSE /\ response' = r.val
               /\ LET next == OnChoice(r.val[1], EngineAuth) IN
                  IF next \in {"SendRequest", "SendAuth"}
                  THEN cpc' = next /\ UNCHANGED <<cres, cstream>>
                  ELSE CFail(next)
    /\ UNCHANGED <<codecVars, listenerVars, serverVars, c2s, s2c, client_auth, target, transport, pState,
                   auth_response, header, csent, proxyStage>>

\* client.rs 118-119: auth.write_to(stream).await?
CliSendAuth ==
    /\ cpc = "SendAuth"
    /\ LET w == UserPassAuth_write_to(EngineAuth[1][1], EngineAuth[1][2])
           good == CCanWrite /\ w.err = "" IN
       /\ csent' = Append(csent, [kind |-> "userpass", bytes |-> w.bytes, ok |-> good])
       /\ c2s' = IF CCanWrite THEN c2s \o w.bytes ELSE c2s
       /\ IF ~CCanWrite THEN CFail("connection reset")
          ELSE IF w.err # "" THEN CFail(w.err)
          ELSE cpc' = "ReadAuthResponse" /\ UNCHANGED <<cres, cstream>>
    /\ UNCHANGED <<codecVars, listenerVars, serverVars, s2c, client_auth, target, transport, pState, cpos,
                   response, auth_response, header, proxyStage>>

\* client.rs 121-141: the userpass status is read and acted on
CliReadAuthResponse ==
    /\ cpc = "ReadAuthResponse"
    /\ LET r == Recv(Read2(CUnread, pState), pState) IN
       /\ r.st # "Pending"
       /\ cpos' = cpos + r.n
       /\ IF r.st = "Err" THEN CFail(r.err) /\ UNCHANGED auth_response
          ELSE /\ auth_response' = r.val
               /\ LET next == OnAuthResponse(r.val[1]) IN
                  IF next = "SendRequest"
                  THEN cpc' = next /\ UNCHANGED <<cres, cstream>>
                  ELSE CFail(next)
    /\ UNCHANGED <<codecVars, listenerVars, serverVars, c2s, s2c, client_auth, target, transport, pState,
                   response, header, csent, proxyStage>>

\* client.rs 173-180: the connect request is written
CliSendRequest ==
    /\ cpc = "SendRequest"
    /\ LET w == ConnectRequest_write(target)
           good == CCanWrite /\ w.err = "" IN
       /\ csent' = Append(csent, [kind |-> "request", bytes |-> w.bytes, ok |-> good])
       /\ c2s' = IF CCanWrite THEN c2s \o w.bytes ELSE c2s
       /\ IF ~CCanWrite THEN CFail("connection reset")
          ELSE IF w.err # "" THEN CFail(w.err)
          ELSE cpc' = "ReadReply" /\ UNCHANGED <<cres, cstream>>
    /\ UNCHANGED <<codecVars, listenerVars, serverVars, s2c, client_auth, target, transport, pState, cpos,
                   response, auth_response, header, proxyStage>>

\* client.rs 183-241 and 77: the reply is read; on success connect returns the stream
CliReadReply ==
    /\ cpc = "ReadReply"
    /\ LET r == Recv(ReadReply(CUnread, pState), pState) IN
       /\ r.st # "Pending"
       /\ cpos' = cpos + r.n
       /\ header' = IF r.n >= 3 THEN Some(SubSeq(CUnread, 1, 3)) ELSE header
       /\ IF r.st = "Err" THEN CFail(r.err)
          ELSE cpc' = "Established" /\ cres' = "Ok" /\ cstream' = "returned"
    /\ UNCHANGED <<codecVars, listenerVars, serverVars, c2s, s2c, client_auth, target, transport, pState,
                   response, auth_response, csent, proxyStage>>

\* ----------------------------------------------- the peer of the client
Choices == { <<SOCKS_VERSION, AUTH_NONE>>, <<SOCKS_VERSION, AUTH_PASSWORD>>,
             <<SOCKS_VERSION, 255>>, <<SOCKS_VERSION, 1>>, <<4, AUTH_NONE>> }
Statuses == { <<AUTH_VERSION, AUTH_SUCCESS>>, <<AUTH_VERSION, AUTH_FAILURE>>,
              <<AUTH_VERSION, 255>>, <<5, AUTH_SUCCESS>> }
BoundAddrs == { SocksAddr_write_to(a).bytes : a \in Targets }
                 \cup { <<ATYP_DOMAIN, 1, 255, 0, 80>>, <<2, 1, 2, 3, 4, 0, 80>> }
ReplyMsgs ==
    { <<SOCKS_VERSION, REP_SUCCEEDED, 0>> \o a : a \in BoundAddrs }
    \cup { <<SOCKS_VERSION, r, 0>> \o SocksAddr_write_to(Ipv4(V4Host, 80)).bytes : r \in 1..9 }
    \cup { <<4, REP_SUCCEEDED, 0>> \o SocksAddr_write_to(Ipv4(V4Host, 80)).bytes }
ProxyMsgs(k) ==
    IF k = 1 THEN Choices ELSE IF k = 2 THEN Statuses
    ELSE IF k = 3 THEN ReplyMsgs ELSE {PayloadChunk(1)}

ProxySend ==
    /\ cstream = "open" /\ pState = "open"
    /\ \E k \in proxyStage..4 : \E m \in ProxyMsgs(k) :
         /\ s2c' = s2c \o m
         /\ proxyStage' = k + 1
    /\ UNCHANGED <<codecVars, listenerVars, serverVars, c2s, client_auth, target, transport, cpc, cres, cstream,
                   pState, cpos, response, auth_response, header, csent>>

ProxySendTruncated ==
    /\ cstream = "open" /\ pState = "open"
    /\ \E k \in proxyStage..3 : \E m \in ProxyMsgs(k) : \E n \in 1..(Len(m) - 1) :
         /\ s2c' = s2c \o Take(m, n)
         /\ proxyStage' = 5
    /\ pState' = "eof"
    /\ UNCHANGED <<codecVars, listenerVars, serverVars, c2s, client_auth, target, transport, cpc, cres, cstream,
                   cpos, response, auth_response, header, csent>>

ProxyShutdown ==
    /\ cstream = "open" /\ pState = "open"
    /\ pState' = "eof"
    /\ UNCHANGED <<codecVars, listenerVars, serverVars, c2s, s2c, client_auth, target, transport, cpc, cres,
                   cstream, cpos, response, auth_response, header, csent, proxyStage>>

ProxyReset ==
    /\ cstream = "open" /\ pState # "reset"
    /\ pState' = "reset"
    /\ UNCHANGED <<codecVars, listenerVars, serverVars, c2s, s2c, client_auth, target, transport, cpc, cres,
                   cstream, cpos, response, auth_response, header, csent, proxyStage>>

\* no server handler runs
NoHandler ==
    /\ cState = "open" /\ rpos = 0 /\ s2cShut = FALSE /\ stream = "none"
    /\ pc = "Idle" /\ result = ""
    /\ handshake = None /\ choice = None /\ auth = None
    /\ auth_successful = None /\ request = None /\ reqEnd = 0
    /\ reply = None /\ sent = <<>> /\ lookups = <<>>
    /\ dest_addr = None /\ dials = <<>>
    /\ server = "none" /\ s2u = <<>> /\ s2uShut = FALSE
    /\ u2s = <<>> /\ uState = "open" /\ upos = 0
    /\ a_to_b = "Idle" /\ b_to_a = "Idle" /\ bufA = <<>> /\ bufB = <<>>
    /\ peerStage = 1 /\ nPayload = 0 /\ nUpstream = 0

\* no server runs: the peer of the client is any sender of bytes
ServerIdle == auth_required = FALSE /\ credentials = None /\ NoHandler

InitClient ==
    /\ ServerIdle /\ ListenerIdle /\ CodecIdle
    /\ c2s = <<>> /\ s2c = <<>>
    /\ client_auth \in {None, Some(<<U1, P1>>)}
    /\ target \in Targets
    /\ transport \in {"tcp", "tls"}
    /\ cpc = "Connecting" /\ cres = "" /\ cstream = "none" /\ pState = "open" /\ cpos = 0
    /\ response = None /\ auth_response = None /\ header = None
    /\ csent = <<>> /\ proxyStage = 1

NextClient ==
    \/ CliOpen \/ CliSendGreeting \/ CliReadChoice \/ CliSendAuth
    \/ CliReadAuthResponse \/ CliSendRequest \/ CliReadReply
    \/ ProxySend \/ ProxySendTruncated \/ ProxyShutdown \/ ProxyReset

SpecClient == InitClient /\ [][NextClient]_vars

\* ===================================================== the accept loops
\* Server::run (server.rs 51-73) and TlsServer::run (tls.rs 47-78), built from
\* the same ServerOptions: each binds, then accepts in a loop and spawns one
\* detached task per accepted connection. A task is followed here phase by
\* phase (a read and what the handler does with it); the single steps of a
\* handler are the actions of Spec.
MaxConn == 2
MaxAcceptErrors == 1

Transports == {"tcp", "tls"}

\* what the peer of a task sends in each phase
TaskMsgs(phase) ==
    IF phase = "ReadHandshake"
    THEN { <<SOCKS_VERSION, 2, AUTH_NONE, AUTH_PASSWORD>>, <<4, 1, AUTH_NONE>> }
    ELSE IF phase = "ReadAuth" THEN { UserPassMsg(U1, P1), UserPassMsg(U1, P2) }
    ELSE IF phase = "ReadRequest"
    THEN { RequestMsg(SOCKS_VERSION, CMD_CONNECT, Ipv4(V4Host, 80)),
           RequestMsg(SOCKS_VERSION, CMD_BIND, Ipv4(V4Host, 80)) }
    ELSE {}
TaskDialOutcomes == {"Ok", "ConnectionRefused"}
TaskLocalAddr == Ipv4(<<10, 0, 0, 2>>, 40000)

\* server.rs 59-62, tls.rs 57-60: the task spawned for an accepted connection,
\* with its own copy of the settings
NewTask(tr, required, creds) ==
    [tr |-> tr, required |-> required, creds |-> creds,
     pc |-> IF tr = "tls" THEN "TlsAccept" ELSE "ReadHandshake",
     inp |-> <<>>, pst |-> "open", rd |-> 0, out |-> <<>>,
     result |-> "", up |-> "none", dial |-> "", tls |-> ""]

\* the task's future completes with res: its streams are dropped
Ended(t, res) ==
    [t EXCEPT !.pc = "Closed", !.result = res,
              !.up = IF @ = "open" THEN "closed" ELSE @]

\* server.rs 76-219: handle_client from the read it stands at to the next one;
\* o is what TcpStream::connect answers if this phase dials
handle_client(t, o) ==
    LET b == Drop(t.inp, t.rd) IN
    IF t.pc = "ReadHandshake" THEN
        LET r == HandshakeRequest_read_from(b, t.pst) IN
        IF r.st = "Pending" THEN t
        ELSE IF r.st = "Err" THEN Ended([t EXCEPT !.rd = @ + r.n], r.err)
        ELSE LET m == SelectMethod(t.required, r.val[1].methods)
                 t1 == [t EXCEPT !.rd = @ + r.n, !.out = @ \o <<SOCKS_VERSION, m>>] IN
             IF m = AUTH_NOT_ACCEPTABLE THEN Ended(t1, "No acceptable auth methods")
             ELSE [t1 EXCEPT !.pc = IF m = AUTH_PASSWORD THEN "ReadAuth" ELSE "ReadRequest"]
    ELSE IF t.pc = "ReadAuth" THEN
        LET r == UserPassAuth_read_from(b, t.pst) IN
        IF r.st = "Pending" THEN t
        ELSE IF r.st = "Err" THEN Ended([t EXCEPT !.rd = @ + r.n], r.err)
        ELSE LET good == CheckCredentials(t.creds, r.val[1])
                 t1 == [t EXCEPT !.rd = @ + r.n,
                                 !.out = @ \o <<AUTH_VERSION,
                                                IF good THEN AUTH_SUCCESS ELSE AUTH_FAILURE>>] IN
             IF AfterStatus(good) = "Closed" THEN Ended(t1, "Authentication failed")
             ELSE [t1 EXCEPT !.pc = AfterStatus(good)]
    ELSE IF t.pc = "ReadRequest" THEN
        LET r == Request_read_from(b, t.pst) IN
        IF r.st = "Pending" THEN t
        ELSE IF r.st = "Err" THEN Ended([t EXCEPT !.rd = @ + r.n], r.err)
        ELSE LET req == r.val[1]
                 t1 == [t EXCEPT !.rd = @ + r.n] IN
             IF ~IsConnect(req.command)
             THEN Ended([t1 EXCEPT !.out = @ \o Reply_write_to(REP_COMMAND_NOT_SUPPORTED,
                                                               req.addr).bytes],
                        "Command not supported")
             ELSE IF o = "Ok"
             THEN [t1 EXCEPT !.dial = o, !.up = "open", !.pc = "Relay",
                             !.out = @ \o Reply_write_to(REP_SUCCEEDED, TaskLocalAddr).bytes]
             ELSE Ended([t1 EXCEPT !.dial = o,
                                   !.out = @ \o Reply_write_to(ReplyCodeFor(o), req.addr).bytes],
                        o)
    ELSE IF t.pc = "Relay" THEN
        IF t.pst = "eof" THEN Ended(t, "Ok") ELSE t
    ELSE t


\* faulty variant: the TLS handler ignores auth_required
Server_handle_client_NoAuth(t, o) == handle_client([t EXCEPT !.required = FALSE], o)

\* tls.rs 58 and 63: self.server.clone() and server.handle_client(tls_stream).
\* Server has no such method in server.rs (handle_client there is a free
\* function over TcpStream): the handler for a TLS stream is the one handler
\* the specification describes, run on the settings of the wrapped Server.
Server_handle_client(t, o) == handle_client(t, o)

\* faulty variant: the handler is awaited in the accept loop
AfterSpawn_Inline(ts) ==
    IF \E i \in 1..Len(ts) : ts[i].pc # "Closed" THEN "Handling" ELSE "Accept"

\* server.rs 62-66, tls.rs 60-71: tokio::spawn returns at once and its
\* JoinHandle is dropped; the loop goes back to accept
AfterSpawn(ts) == "Accept"

\* faulty variant: a handler's error ends the accept loop
OnHandlerResult_Propagate(lp, res) ==
    IF lp = "Accept" /\ res \notin {"", "Ok"} THEN "Returned" ELSE lp

\* server.rs 63-65, tls.rs 63-69: a handler's error is logged inside its task
OnHandlerResult(lp, res) == lp

connVars0 == <<cfgVars, clientConn, upConn, pc, result, negotiation, connectVars,
              sent, relayVars, peerVars, clientVars>>
connVars == <<connVars0, codecVars>>

\* server.rs 52, tls.rs 48: TcpListener::bind(..).await?
ListenerBindAt(l) ==
    /\ listeners[l] = "Bind"
    /\ \E ok \in BOOLEAN :
         listeners' = [listeners EXCEPT ![l] = IF ok THEN "Accept" ELSE "Returned"]
    /\ UNCHANGED <<connVars, tasks, accept_errors>>

\* server.rs 56-67, tls.rs 54-72: accept returned a connection; its task is spawned
ListenerAcceptAt(l) ==
    /\ listeners[l] = "Accept" /\ Len(tasks) < MaxConn
    /\ tasks' = Append(tasks, NewTask(l, auth_required, credentials))
    /\ listeners' = [listeners EXCEPT ![l] = AfterSpawn(tasks')]
    /\ UNCHANGED <<connVars, accept_errors>>

\* server.rs 68-70, tls.rs 73-75: accept failed; the error is logged
ListenerAcceptFailAt(l) ==
    /\ listeners[l] = "Accept" /\ accept_errors < MaxAcceptErrors
    /\ accept_errors' = accept_errors + 1
    /\ UNCHANGED <<connVars, listeners, tasks>>

\* tls.rs 61-70: acceptor.accept(stream).await inside the task
TaskTlsAcceptOf(i) ==
    /\ tasks[i].pc = "TlsAccept"
    /\ \E ok \in BOOLEAN :
         tasks' = [tasks EXCEPT ![i] =
                      IF ok THEN [@ EXCEPT !.pc = "ReadHandshake", !.tls = "Ok"]
                      ELSE Ended([@ EXCEPT !.tls = "Failed"], "TLS handshake failed")]
    /\ listeners' = [l \in Transports |-> OnHandlerResult(listeners[l], tasks'[i].result)]
    /\ UNCHANGED <<connVars, accept_errors>>

\* server.rs 63, tls.rs 63: the peer of task i writes the message the handler
\* waits for, or closes its side (during the relay: both sides have ended), and
\* the handler runs the phase that reads it
TaskStepOf(i) ==
    /\ tasks[i].pc \in {"ReadHandshake", "ReadAuth", "ReadRequest", "Relay"}
    /\ \E m \in TaskMsgs(tasks[i].pc) \cup {<<>>} : \E o \in TaskDialOutcomes :
         LET t == IF m = <<>> THEN [tasks[i] EXCEPT !.pst = "eof"]
                  ELSE [tasks[i] EXCEPT !.inp = @ \o m]
             n == IF t.tr = "tls" THEN Server_handle_client(t, o) ELSE handle_client(t, o) IN
         /\ tasks' = [tasks EXCEPT ![i] = n]
         /\ listeners' = [l \in Transports |-> OnHandlerResult(listeners[l], n.result)]
    /\ UNCHANGED <<connVars, accept_errors>>

InitListener ==
    /\ auth_required \in BOOLEAN
    /\ credentials = Some(<< <<U1, P1>>, <<U2, P2>> >>)
    /\ NoHandler /\ c2s = <<>> /\ s2c = <<>>
    /\ ClientIdle /\ CodecIdle
    /\ listeners = [l \in Transports |-> "Bind"]
    /\ tasks = <<>>
    /\ accept_errors = 0

ListenerBind == \E l \in Transports : ListenerBindAt(l)
ListenerAccept == \E l \in Transports : ListenerAcceptAt(l)
ListenerAcceptFail == \E l \in Transports : ListenerAcceptFailAt(l)
TaskTlsAccept == \E i \in 1..Len(tasks) : TaskTlsAcceptOf(i)
TaskStep == \E i \in 1..Len(tasks) : TaskStepOf(i)

NextListener ==
    \/ ListenerBind \/ ListenerAccept \/ ListenerAcceptFail
    \/ TaskTlsAccept \/ TaskStep

SpecListener == InitListener /\ [][NextListener]_vars

\* ================================================= client against server
\* Client::connect (client.rs 62-78) on one end of a TCP connection and
\* handle_client (server.rs 76-219) on the other: what the engine writes is
\* what the handler reads, and the other way round. The connection is
\* reliable. Once connect has returned the stream its owner may drop it, and
\* the upstream may shut down or reset; neither writes payload, so the relay's
\* copy steps have nothing to move and only its end-of-stream steps occur.
InitPair ==
    /\ auth_required \in BOOLEAN
    /\ credentials \in {None, Some(<< <<U1, P1>> >>)}
    /\ HandlerInit
    /\ ListenerIdle /\ CodecIdle
    /\ client_auth \in {None, Some(<<U1, P1>>), Some(<<U1, P2>>)}
    /\ target \in Targets
    /\ transport = "tcp"
    /\ cpc = "SendGreeting" /\ cres = "" /\ cstream = "open" /\ pState = "open" /\ cpos = 0
    /\ response = None /\ auth_response = None /\ header = None
    /\ csent = <<>> /\ proxyStage = 1

\* the owner of the stream connect returned drops it
AppClose ==
    /\ cstream = "returned"
    /\ cstream' = "closed"
    /\ UNCHANGED <<codecVars, listenerVars, serverVars, c2s, s2c, client_auth, target,
                   transport, cpc, cres, pState, cpos, response, auth_response, header,
                   csent, proxyStage>>

\* the client's end was dropped: the handler's reads reach end of stream
PairClientDropped ==
    /\ cstream = "closed" /\ cState = "open"
    /\ cState' = "eof"
    /\ UNCHANGED <<codecVars, listenerVars, clientVars, cfgVars, c2s, rpos, s2c, s2cShut,
                   stream, upConn, pc, result, negotiation, connectVars, sent, relayVars,
                   peerVars>>

\* the handler's end was dropped or shut down: the client's reads reach end of stream
PairServerDropped ==
    /\ (stream = "closed" \/ s2cShut) /\ pState = "open"
    /\ pState' = "eof"
    /\ UNCHANGED <<codecVars, listenerVars, serverVars, c2s, s2c, client_auth, target,
                   transport, cpc, cres, cstream, cpos, response, auth_response, header,
                   csent, proxyStage>>

NextPair ==
    \/ CliSendGreeting \/ CliReadChoice \/ CliSendAuth
    \/ CliReadAuthResponse \/ CliSendRequest \/ CliReadReply
    \/ AppClose \/ PairClientDropped \/ PairServerDropped
    \/ ReadHandshake \/ WriteChoice \/ ReadAuth \/ WriteAuthStatus
    \/ ReadRequest \/ Lookup \/ Connect \/ WriteReply
    \/ RelayEofA \/ RelayShutdownA \/ RelayEofB \/ RelayShutdownB \/ RelayErrorB
    \/ RelayDone
    \/ UpShutdown \/ UpReset

\* both ends are tasks of a runtime that polls every task whose I/O is ready:
\* a step that stays possible is eventually taken
SpecPair == InitPair /\ [][NextPair]_vars /\ WF_vars(NextPair)

\* ============================================================ the codecs
\* protocol.rs 51-116 and 165-250 on their own: a value is encoded onto a
\* stream by write_to (or a peer writes bytes of its own), more bytes may
\* follow or the writer may shut down, and a read_from decodes from the start
\* of the stream.
Rep(n) == [i \in 1..n |-> 97]
\* names, usernames and passwords: empty, one byte, a two-byte character, at
\* the limit of 255 bytes and one byte over it
CodecNames == { Rep(0), Rep(1), <<195, 169>>, Rep(255), Rep(256) }
CodecPorts == { 0, 80, 255, 256, 65535 }
CodecAddrs ==
    { Ipv4(h, p) : h \in {V4Host, <<255, 255, 255, 255>>}, p \in CodecPorts }
    \cup { Ipv6(V6Host, p) : p \in CodecPorts }
    \cup { Domain(n, p) : n \in CodecNames, p \in CodecPorts }
\* bytes no encoder of this crate produces
RawInputs ==
    { <<2, 1, 2, 3, 4, 0, 80>>, <<0>>, <<255, 3>>,
      <<ATYP_DOMAIN, 0, 0, 80>>, <<ATYP_DOMAIN, 2, 104, 255, 0, 80>>,
      <<ATYP_DOMAIN, 1, 255>>, <<ATYP_DOMAIN, 2, 104>>, <<ATYP_IPV4, 1, 2, 3>>,
      <<ATYP_IPV6, 1, 2, 3, 4, 5, 6, 7, 8, 9, 10, 11, 12, 13, 14, 15, 16, 31>>,
      <<4, 1, AUTH_NONE>>, <<SOCKS_VERSION, 2, AUTH_NONE, AUTH_PASSWORD>>,
      <<2, 1, 97, 1, 120>>, <<AUTH_VERSION, 1, 255, 1, 120>> }
CodecValues ==
    { [kind |-> "addr", addr |-> a] : a \in CodecAddrs }
    \cup { [kind |-> "userpass", username |-> u, password |-> p] :
             u \in CodecNames, p \in CodecNames }
    \cup { [kind |-> "raw", bytes |-> b] : b \in RawInputs }

InitCodec ==
    /\ ServerIdle /\ ClientIdle /\ ListenerIdle
    /\ c2s = <<>> /\ s2c = <<>>
    /\ value \in { Some(v) : v \in CodecValues }
    /\ wire = <<>> /\ wire_st = "open" /\ written = 0
    /\ write_err = "" /\ decoder = "Encode" /\ decoded = None

\* protocol.rs 87-116: addr.write_to(w)
EncodeAddr ==
    /\ decoder = "Encode" /\ value[1].kind = "addr"
    /\ LET w == SocksAddr_write_to(value[1].addr) IN
       /\ wire' = w.bytes
       /\ written' = Len(w.bytes)
       /\ write_err' = w.err
    /\ decoder' = ""
    /\ UNCHANGED <<connVars0, listenerVars, value, wire_st, decoded>>

\* protocol.rs 170-199: UserPassAuth::new(username, password).write_to(w)
EncodeUserPass ==
    /\ decoder = "Encode" /\ value[1].kind = "userpass"
    /\ LET w == UserPassAuth_write_to(value[1].username, value[1].password) IN
       /\ wire' = w.bytes
       /\ written' = Len(w.bytes)
       /\ write_err' = w.err
    /\ decoder' = ""
    /\ UNCHANGED <<connVars0, listenerVars, value, wire_st, decoded>>

\* a peer writes bytes of its own
WriteRaw ==
    /\ decoder = "Encode" /\ value[1].kind = "raw"
    /\ wire' = value[1].bytes
    /\ written' = Len(value[1].bytes)
    /\ decoder' = ""
    /\ UNCHANGED <<connVars0, listenerVars, value, wire_st, write_err, decoded>>

\* the writer goes on with the next message
WireMore ==
    /\ decoder = "" /\ wire_st = "open" /\ Len(wire) = written
    /\ wire' = wire \o <<9>>
    /\ UNCHANGED <<connVars0, listenerVars, value, wire_st, written, write_err,
                   decoder, decoded>>

\* the writer shuts its side down
WireShutdown ==
    /\ decoder = "" /\ wire_st = "open"
    /\ wire_st' = "eof"
    /\ UNCHANGED <<connVars0, listenerVars, value, wire, written, write_err,
                   decoder, decoded>>

\* protocol.rs 52-85: SocksAddr::read_from(r) returns
DecodeAddr ==
    /\ decoder = ""
    /\ LET r == SocksAddr_read_from(wire, wire_st) IN
       /\ r.st # "Pending"
       /\ decoded' = Some(r)
    /\ decoder' = "SocksAddr"
    /\ UNCHANGED <<connVars0, listenerVars, value, wire, wire_st, written, write_err>>

\* protocol.rs 201-228: UserPassAuth::read_from(r) returns
DecodeUserPass ==
    /\ decoder = ""
    /\ LET r == UserPassAuth_read_from(wire, wire_st) IN
       /\ r.st # "Pending"
       /\ decoded' = Some(r)
    /\ decoder' = "UserPassAuth"
    /\ UNCHANGED <<connVars0, listenerVars, value, wire, wire_st, written, write_err>>

NextCodec ==
    \/ EncodeAddr \/ EncodeUserPass \/ WriteRaw \/ WireMore \/ WireShutdown
    \/ DecodeAddr \/ DecodeUserPass

SpecCodec == InitCodec /\ [][NextCodec]_vars

\* ================================================================ claims
\* the bytes of the handler's messages that reached the accepted connection
RECURSIVE Flat(_)
Flat(msgs) ==
    IF msgs = <<>> THEN <<>>
    ELSE (IF msgs[1].ok THEN msgs[1].bytes ELSE <<>>) \o Flat(Tail(msgs))
Replies == { i \in 1..Len(sent) : sent[i].kind = "reply" }
\* the session state of section 3, read off the handler's position
SessionState ==
    IF pc \in {"ReadHandshake", "SelectMethod"} THEN "AwaitingGreeting"
    ELSE IF pc \in {"ReadAuth", "Validate"} THEN "AwaitingAuthChoice"
    ELSE IF pc \in {"ReadRequest", "Lookup", "Connect", "WriteReply"} THEN "AwaitingRequest"
    ELSE IF pc = "Relay" THEN "Relaying"
    ELSE "Closed"
Rank(st) ==
    IF st = "AwaitingGreeting" THEN 1 ELSE IF st = "AwaitingAuthChoice" THEN 2
    ELSE IF st = "AwaitingRequest" THEN 3 ELSE IF st = "Relaying" THEN 4 ELSE 5
\* method negotiation and, when selected, authentication are complete
HandshakeDone ==
    /\ choice # None /\ choice[1] # AUTH_NOT_ACCEPTABLE /\ sent[1].ok
    /\ (choice[1] = AUTH_PASSWORD =>
            auth_successful = Some(TRUE) /\ Len(sent) >= 2 /\ sent[2].ok)

\* C1: for every decoded greeting and every configuration the selection message
\* the handler issues follows the decision table; it is the first thing written;
\* after 0xFF the handler is closed with an error, has consumed nothing beyond
\* the greeting, has read no request and has made no lookup and no dial.
C1_MethodSelection ==
    /\ (handshake # None /\ pc # "SelectMethod") => choice # None
    /\ choice # None =>
        LET ms == handshake[1].methods
            m == choice[1] IN
        /\ (auth_required /\ Contains(ms, 2)) => m = 2
        /\ (auth_required /\ ~Contains(ms, 2)) => m = 255
        /\ (~auth_required /\ Contains(ms, 0)) => m = 0
        /\ (~auth_required /\ ~Contains(ms, 0)) => m = 255
        /\ sent[1].kind = "choice" /\ sent[1].bytes = <<5, m>>
        /\ sent[1].ok => Take(s2c, 2) = <<5, m>>
        /\ m = 255 =>
            /\ pc = "Closed" /\ result # "Ok" /\ stream = "closed"
            /\ (sent[1].ok => result = "No acceptable auth methods" /\ s2c = <<5, 255>>)
            /\ rpos = 2 + Len(ms)
            /\ request = None /\ auth = None
            /\ lookups = <<>> /\ dials = <<>> /\ server = "none"

\* C1 witness: auth is required, the peer offered only no-auth and already sent a
\* request; the handler answered 0xFF and closed with the request unread.
C1_Witness ==
    /\ auth_required /\ handshake = Some([version |-> 5, methods |-> <<0>>])
    /\ choice = Some(255) /\ s2c = <<5, 255>> /\ pc = "Closed"
    /\ Len(c2s) > rpos

\* C2: the allow-list check succeeds exactly when the allow-list is present and
\* one entry equals the received username and password; then [1,0] is issued and
\* the handler goes on to the request; otherwise [1,1] is issued, the handler ends
\* with "Authentication failed" and nothing after the userpass message is read.
C2_Authentication ==
    /\ auth # None => choice = Some(2)
    /\ (auth # None /\ pc # "Validate") => auth_successful # None
    /\ auth_successful # None =>
        LET good == auth_successful[1]
            a == auth[1] IN
        /\ good <=> /\ credentials # None
                    /\ \E i \in 1..Len(credentials[1]) :
                          credentials[1][i] = <<a.username, a.password>>
        /\ Len(sent) >= 2 /\ sent[2].kind = "status"
        /\ sent[2].bytes = <<1, IF good THEN 0 ELSE 1>>
        /\ sent[2].ok => SubSeq(s2c, 1, 4) = <<5, 2, 1, IF good THEN 0 ELSE 1>>
        /\ (good /\ sent[2].ok) =>
              /\ result # "Authentication failed"
              /\ (pc = "Closed" => reqEnd > 0)
        /\ ~good =>
              /\ pc = "Closed" /\ stream = "closed" /\ result # "Ok"
              /\ (sent[2].ok => result = "Authentication failed")
              /\ request = None /\ reqEnd = 0 /\ Len(sent) = 2
              /\ rpos = 2 + Len(handshake[1].methods) + 3 + Len(a.username) + Len(a.password)
              /\ lookups = <<>> /\ dials = <<>> /\ server = "none"

\* C2 witness: a username of one entry with the password of another was refused
\* while the peer's request was already waiting in the stream.
C2_Witness ==
    /\ auth = Some([username |-> U1, password |-> P2])
    /\ credentials # None /\ auth_successful = Some(FALSE)
    /\ s2c = <<5, 2, 1, 1>> /\ pc = "Closed" /\ Len(c2s) > rpos

\* C3: a decoded request whose command is not CONNECT gets the reply REP=7 with
\* the requested address, the handler then ends with "Command not supported", and
\* no lookup and no dial is ever made for it.
C3_CommandNotSupported ==
    (request # None /\ request[1].command # 1) =>
        /\ reply # None /\ reply[1].reply = 7 /\ reply[1].addr = request[1].addr
        /\ pc \in {"WriteReply", "Closed"}
        /\ lookups = <<>> /\ dials = <<>> /\ server = "none" /\ a_to_b = "Idle"
        /\ pc = "Closed" =>
            /\ Cardinality(Replies) = 1
            /\ sent[Len(sent)].kind = "reply"
            /\ sent[Len(sent)].bytes =
                  <<5, 7, 0>> \o SubSeq(c2s, reqEnd - Len(sent[Len(sent)].bytes) + 4, reqEnd)
            /\ sent[Len(sent)].ok =>
                  /\ result = "Command not supported"
                  /\ s2c = Flat(sent)

\* C3 witness: a UDP ASSOCIATE for a domain was answered with REP=7.
C3_Witness ==
    /\ request # None /\ request[1].command = 3 /\ request[1].addr.atyp = 3
    /\ pc = "Closed" /\ result = "Command not supported"

\* C4: a failed dial is followed by exactly one reply, whose code is 5 for
\* connection refused, 3 for network unreachable, 4 for host unreachable and 3 for
\* any other error; the handler then closes and the relay never starts.
C4_DialFailure ==
    /\ Len(dials) <= 1
    /\ (dials # <<>> /\ dials[1].outcome # "Ok") =>
        LET e == dials[1].outcome
            code == IF e = "ConnectionRefused" THEN 5
                    ELSE IF e = "NetworkUnreachable" THEN 3
                    ELSE IF e = "HostUnreachable" THEN 4 ELSE 3 IN
        /\ reply # None /\ reply[1].reply = code /\ reply[1].addr = request[1].addr
        /\ pc \in {"WriteReply", "Closed"}
        /\ server = "none" /\ a_to_b = "Idle" /\ b_to_a = "Idle" /\ s2u = <<>>
        /\ pc = "WriteReply" => Replies = {}
        /\ pc = "Closed" =>
            /\ Cardinality(Replies) = 1 /\ stream = "closed"
            /\ sent[Len(sent)].kind = "reply"
            /\ SubSeq(sent[Len(sent)].bytes, 1, 3) = <<5, code, 0>>
            /\ sent[Len(sent)].ok => result = e /\ s2c = Flat(sent)

\* C4 witness: a dial that timed out was answered with REP=3 and the handler closed.
C4_Witness ==
    /\ dials # <<>> /\ dials[1].outcome = "TimedOut"
    /\ pc = "Closed" /\ result = "TimedOut"
    /\ sent[Len(sent)].ok /\ sent[Len(sent)].bytes[2] = 3

\* C5 (as claimed): a handler that fails after the handshake phase on a request
\* with a wrong version byte, an unsupported address type or a non-UTF-8 domain
\* name has sent a reply before closing.
C5_ReplyBeforeClose ==
    ( /\ pc = "Closed" /\ HandshakeDone
      /\ result \in {"Unsupported SOCKS version", "Unsupported address type",
                     "Invalid domain name"} )
    => Replies # {}

C7_RelayFidelity ==
    /\ a_to_b = "Idle" => s2u = <<>> /\ bufA = <<>> /\ bufB = <<>> /\ upos = 0
    /\ a_to_b # "Idle" =>
        /\ s2u \o bufA = SubSeq(c2s, reqEnd + 1, rpos)
        /\ IsPrefix(s2u, Drop(c2s, reqEnd))
        /\ IsPrefix(Flat(sent), s2c)
        /\ Drop(s2c, Len(Flat(sent))) \o bufB = Take(u2s, upos)
        /\ IsPrefix(Drop(s2c, Len(Flat(sent))), u2s)
        /\ sent[Len(sent)].bytes[2] = 0
    /\ \A i \in 1..Len(s2u) : \A j \in 1..Len(u2s) : s2u[i] # u2s[j]

\* C7 witness: both directions have delivered two bytes each.
C7_Witness ==
    /\ pc = "Relay" /\ Len(s2u) = 2 /\ Len(s2c) = Len(Flat(sent)) + 2

\* C8: the session state only moves forward through AwaitingGreeting,
\* AwaitingAuthChoice, AwaitingRequest, Relaying, Closed; AwaitingAuthChoice is
\* entered only from AwaitingGreeting with auth required; AwaitingRequest only once
\* a method was selected and written and, when auth is required, the success
\* status was written; Relaying only from AwaitingRequest; Closed is final.
C8_SessionOrder ==
    [][ LET s == SessionState
            t == SessionState' IN
        /\ Rank(t) >= Rank(s)
        /\ (t = "AwaitingAuthChoice" /\ s # t) =>
              s = "AwaitingGreeting" /\ auth_required /\ choice' = Some(2)
        /\ (t = "AwaitingRequest" /\ s # t) =>
              /\ s \in {"AwaitingGreeting", "AwaitingAuthChoice"}
              /\ choice' \in {Some(0), Some(2)} /\ sent'[1].ok
              /\ (s = "AwaitingGreeting" <=> ~auth_required)
              /\ auth_required =>
                    auth_successful' = Some(TRUE) /\ sent'[2].ok /\ sent'[2].bytes = <<1, 0>>
        /\ (t = "Relaying" /\ s # t) => s = "AwaitingRequest"
        /\ s = "Closed" => t = "Closed" ]_vars

\* C8 witness: an authenticated session went through every state and closed
\* after a relay that ended normally.
C8_Witness ==
    /\ pc = "Closed" /\ result = "Ok" /\ auth_successful = Some(TRUE)
    /\ a_to_b = "Done" /\ b_to_a = "Done"

\* C9: the transport is handed to the caller exactly in Established, and then the
\* greeting was written, the choice read was version 5 with method 0 or 2, after
\* method 2 the userpass message was written and the status read was [1,0], the
\* connect request for the target was written, and the reply read had version 5,
\* REP=0 and a complete bound address of type 1, 3 or 4; in every other outcome
\* connect returned an error and the transport is not with the caller.
C9_OnlyEstablished ==
    /\ cstream = "returned" <=> cpc = "Established"
    /\ cres = "Ok" <=> cpc = "Established"
    /\ cpc = "Failed" => cres # "" /\ cstream \in {"none", "closed"}
    /\ cpc \notin {"Established", "Failed"} => cres = "" /\ cstream \in {"none", "open"}
    /\ cpc = "Established" =>
        LET got == Take(s2c, cpos)
            withAuth == got[2] = 2
            h == IF withAuth THEN 4 ELSE 2 IN
        /\ csent[1] = [kind |-> "greeting", bytes |-> Take(c2s, Len(csent[1].bytes)),
                       ok |-> TRUE]
        /\ csent[1].bytes[1] = 5
        /\ response = Some(Take(got, 2)) /\ got[1] = 5 /\ got[2] \in {0, 2}
        /\ Len(csent) = IF withAuth THEN 3 ELSE 2
        /\ withAuth =>
              /\ client_auth # None
              /\ csent[2].kind = "userpass" /\ csent[2].ok
              /\ got[3] = 1 /\ got[4] = 0
        /\ csent[Len(csent)].kind = "request" /\ csent[Len(csent)].ok
        /\ csent[Len(csent)].bytes = <<5, 1, 0>> \o SocksAddr_write_to(target).bytes
        /\ c2s = Flat(csent)
        /\ got[h + 1] = 5 /\ got[h + 2] = 0
        /\ got[h + 4] \in {1, 3, 4}
        /\ cpos = h + 3 + (IF got[h + 4] = 1 THEN 7
                           ELSE IF got[h + 4] = 4 THEN 19 ELSE 4 + got[h + 5])

\* C9 witness: the TLS client reached Established after a userpass exchange.
C9_Witness ==
    /\ transport = "tls" /\ cpc = "Established" /\ cstream = "returned"
    /\ auth_response = Some(<<1, 0>>)

\* C10: for every two-byte choice the client read: a version other than 5 fails
\* with "Invalid SOCKS version from proxy"; method 0 goes on to the request with no
\* userpass message; method 2 with credentials goes on to the userpass exchange;
\* method 2 without credentials fails with "Server requested auth but no
\* credentials provided"; 0xFF fails with "No acceptable authentication methods";
\* any other method fails; a failing choice leaves the greeting as the only
\* message sent, and no request is ever sent before an accepted choice.
C10_ChoiceReaction ==
    LET kinds == { csent[i].kind : i \in 1..Len(csent) }
        stopped(e) == cpc = "Failed" /\ cres = e /\ kinds = {"greeting"} /\ cpos = 2 IN
    /\ response = None => kinds \subseteq {"greeting"}
    /\ response # None =>
        LET v == response[1][1]
            m == response[1][2] IN
        /\ v # 5 => stopped("Invalid SOCKS version from proxy")
        /\ (v = 5 /\ m = 0) =>
              /\ "userpass" \notin kinds
              /\ cpc = "SendRequest" \/ "request" \in kinds
        /\ (v = 5 /\ m = 2 /\ client_auth # None) =>
              /\ cpc = "SendAuth" \/ (Len(csent) >= 2 /\ csent[2].kind = "userpass")
        /\ (v = 5 /\ m = 2 /\ client_auth = None) =>
              stopped("Server requested auth but no credentials provided")
        /\ (v = 5 /\ m = 255) => stopped("No acceptable authentication methods")
        /\ (v = 5 /\ m \notin {0, 2, 255}) => stopped("Unknown authentication method")

\* C10 witness: the server chose userpass, the client has no credentials and
\* failed, with more bytes from the server left unread.
C10_Witness ==
    /\ response = Some(<<5, 2>>) /\ client_auth = None /\ cpc = "Failed"
    /\ Len(s2c) > cpos

\* C11: in the userpass exchange the client goes on to the connect request exactly
\* when the status it read is [1,0]; a status byte other than 0 fails with
\* "Authentication failed", a subversion byte other than 1 fails with "Invalid auth
\* protocol version", and in both cases, as before any status was read, no connect
\* request has been sent.
C11_StatusReaction ==
    LET kinds == { csent[i].kind : i \in 1..Len(csent) }
        stopped(e) == cpc = "Failed" /\ cres = e /\ "request" \notin kinds /\ Len(csent) = 2 IN
    /\ (response = Some(<<5, 2>>) /\ auth_response = None) => "request" \notin kinds
    /\ auth_response # None =>
        LET r == auth_response[1] IN
        /\ response = Some(<<5, 2>>) /\ client_auth # None
        /\ csent[2].kind = "userpass" /\ csent[2].ok
        /\ csent[2].bytes = UserPassMsg(client_auth[1][1], client_auth[1][2])
        /\ r = <<1, 0>> <=>
              (cpc = "SendRequest" \/ (Len(csent) = 3 /\ csent[3].kind = "request"))
        /\ r[1] # 1 => stopped("Invalid auth protocol version")
        /\ (r[1] = 1 /\ r[2] # 0) => stopped("Authentication failed")

\* C11 witness: the status read had subversion 5 and status 0; the client failed
\* with the reply the server had already sent left unread.
C11_Witness ==
    /\ auth_response = Some(<<5, 0>>) /\ cpc = "Failed" /\ Len(s2c) > cpos

\* C12: for every reply of version 5 with a code from 1 to 8 the client fails with
\* the error that names the meaning the server's constants give that code: 1
\* general failure, 2 connection not allowed, 3 network unreachable, 4 host
\* unreachable, 5 connection refused, 6 TTL expired, 7 command not supported,
\* 8 address type not supported.
C12_ReplyMeaning ==
    LET meaning(r) ==
          IF r = REP_GENERAL_FAILURE THEN "General failure"
          ELSE IF r = REP_CONNECTION_NOT_ALLOWED THEN "Connection not allowed"
          ELSE IF r = REP_NETWORK_UNREACHABLE THEN "Network unreachable"
          ELSE IF r = REP_HOST_UNREACHABLE THEN "Host unreachable"
          ELSE IF r = REP_CONNECTION_REFUSED THEN "Connection refused by destination"
          ELSE IF r = REP_TTL_EXPIRED THEN "TTL expired"
          ELSE IF r = REP_COMMAND_NOT_SUPPORTED
               THEN "Command not supported / protocol error"
          ELSE "Address type not supported" IN
    (header # None /\ header[1][1] = SOCKS_VERSION /\ header[1][2] \in 1..8) =>
        cpc = "Failed" /\ cres = meaning(header[1][2])

\* C13: when connect has returned the stream and the bytes after the handshake
\* begin with a success reply as the server writes it (Reply::write_to of REP=0
\* with an IPv4, IPv6 or domain bound address), the client has consumed exactly
\* that reply: what is left in the stream is what the proxy sent after it.
C13_ExactConsumption ==
    cpc = "Established" =>
        LET h == IF response = Some(<<5, 2>>) THEN 4 ELSE 2
            rest == Drop(s2c, h)
            addrs == Targets \cup { l[1] : l \in LocalAddrs \ {None} } IN
        \A a \in addrs :
             LET w == Reply_write_to(REP_SUCCEEDED, a) IN
             (w.err = "" /\ IsPrefix(w.bytes, rest)) =>
                 /\ cpos = h + Len(w.bytes)
                 /\ cpos = h + 3 + (IF a.atyp = ATYP_IPV4 THEN 1 + 4 + 2
                                    ELSE IF a.atyp = ATYP_IPV6 THEN 1 + 16 + 2
                                    ELSE 1 + 1 + Len(a.host) + 2)
                 /\ CUnread = Drop(rest, Len(w.bytes))

\* C13 witness: the reply carried a domain as bound address and the first
\* unread byte is the first payload byte the proxy relayed.
C13_Witness ==
    /\ cpc = "Established" /\ cstream = "returned"
    /\ response = Some(<<5, 0>>)
    /\ IsPrefix(Reply_write_to(REP_SUCCEEDED, Domain(Name, 443)).bytes, Drop(s2c, 2))
    /\ CUnread = PayloadChunk(1)

\* C14: one connect call opens at most one transport (once opened it is never
\* opened again) and passes at most one greeting, one userpass message and one
\* connect request to it; a write that fails is the last thing the call does; a
\* step of the engine on a reset connection ends in Failed; in Failed the call
\* has returned an error and the transport is closed, not returned; and once
\* the call has returned, nothing more is sent, read or opened.
C14_NoRetry ==
    [][ /\ (cstream # "open" /\ cstream' = "open") => (cstream = "none" /\ cpc = "Connecting")
        /\ cstream # "none" => cstream' # "none"
        /\ cpc \in {"Failed", "Established"} =>
              UNCHANGED <<cpc, cres, cstream, csent, cpos, c2s>>
        /\ (pState = "reset" /\ cpc' # cpc) => cpc' = "Failed"
        /\ \A k \in {"greeting", "userpass", "request"} :
              Cardinality({ i \in 1..Len(csent') : csent'[i].kind = k }) <= 1
        /\ \A i \in 1..Len(csent') :
              ~csent'[i].ok => (cpc' = "Failed" /\ i = Len(csent'))
        /\ cpc' = "Failed" => (cres' \notin {"", "Ok"} /\ cstream' \in {"none", "closed"})
      ]_vars

\* C14 witness: the write of the connect request failed on a reset connection
\* after greeting and userpass message; the call failed and the transport is closed.
C14_Witness ==
    /\ cpc = "Failed" /\ cstream = "closed"
    /\ Len(csent) = 3 /\ ~csent[3].ok /\ csent[3].kind = "request"

\* C15 as stated: a client configured with credentials has sent a connect request
\* or reached Established only after a userpass exchange that ended with the
\* success status.
C15_NoUnauthenticatedPath ==
    LET kinds == { csent[i].kind : i \in 1..Len(csent) } IN
    (client_auth # None /\ ("request" \in kinds \/ cpc \in {"SendRequest", "Established"})) =>
        auth_response = Some(<<AUTH_VERSION, AUTH_SUCCESS>>)

\* C15 amended: a client configured with credentials has sent a connect request
\* or reached Established only if the server selected no-auth, and then no
\* userpass message was sent, or the server selected userpass and the client's
\* userpass message with its credentials was written and answered by [1,0].
C15_NoAuthBypass ==
    LET kinds == { csent[i].kind : i \in 1..Len(csent) } IN
    (client_auth # None /\ ("request" \in kinds \/ cpc \in {"SendRequest", "Established"})) =>
        \/ response = Some(<<SOCKS_VERSION, AUTH_NONE>>)
              /\ "userpass" \notin kinds /\ auth_response = None
        \/ response = Some(<<SOCKS_VERSION, AUTH_PASSWORD>>)
              /\ csent[2] = [kind |-> "userpass", ok |-> TRUE,
                             bytes |-> UserPassMsg(client_auth[1][1], client_auth[1][2])]
              /\ auth_response = Some(<<AUTH_VERSION, AUTH_SUCCESS>>)

\* C15 witness: a client with credentials reached Established on the no-auth
\* path, without any userpass exchange.
C15_Witness ==
    /\ client_auth # None /\ cpc = "Established"
    /\ response = Some(<<SOCKS_VERSION, AUTH_NONE>>) /\ auth_response = None

\* C18: whenever the handler task has ended, after whatever abort or after the
\* relay, the accepted connection is closed and the upstream connection, if one
\* was opened, is closed; an upstream is only ever open after a dial that
\* succeeded, and while the handler runs the accepted connection is open.
C18_NoLeak ==
    /\ pc = "Closed" => (stream = "closed" /\ server \in {"none", "closed"} /\ result # "")
    /\ pc # "Closed" => (stream = "open" /\ result = "")
    /\ server # "none" => (dials # <<>> /\ dials[Len(dials)].outcome = "Ok")
    /\ (dials # <<>> /\ dials[Len(dials)].outcome = "Ok") =>
          server = (IF pc = "Closed" THEN "closed" ELSE "open")

\* C18 witness: the dial succeeded, the write of the reply failed, and the handler
\* ended with both connections closed.
C18_Witness ==
    /\ pc = "Closed" /\ stream = "closed" /\ server = "closed"
    /\ sent # <<>> /\ sent[Len(sent)].kind = "reply" /\ ~sent[Len(sent)].ok

\* C19: whichever transport carries them, the messages of a connect call are the
\* ones its credentials, its target and the responses read so far determine: the
\* greeting [5,2,0,2] with credentials and [5,1,0] without; a userpass message,
\* second and carrying the configured credentials, only after the choice [5,2];
\* the connect request for the target, last, only after [5,0] or after [5,2] and
\* the status [1,0]; and the errors that only the TLS transport has end the call
\* before any SOCKS5 message is sent or read.
C19_TransportIndependent ==
    LET n == Len(csent) IN
    /\ n >= 1 => /\ csent[1].kind = "greeting"
                 /\ csent[1].bytes = IF client_auth # None THEN <<5, 2, 0, 2>> ELSE <<5, 1, 0>>
    /\ \A i \in 1..n : csent[i].kind = "userpass" =>
          /\ i = 2 /\ client_auth # None /\ response = Some(<<5, 2>>)
          /\ csent[i].bytes = UserPassMsg(client_auth[1][1], client_auth[1][2])
    /\ \A i \in 1..n : csent[i].kind = "request" =>
          /\ i = n /\ csent[i].bytes = RequestMsg(5, 1, target)
          /\ \/ i = 2 /\ response = Some(<<5, 0>>)
             \/ i = 3 /\ response = Some(<<5, 2>>) /\ auth_response = Some(<<1, 0>>)
    /\ (response = Some(<<5, 2>>) /\ client_auth # None /\ pState = "open") =>
          cpc = "SendAuth" \/ (n >= 2 /\ csent[2].kind = "userpass")
    /\ cres \in {"Invalid domain name", "tls handshake failed"} =>
          (transport = "tls" /\ csent = <<>> /\ cpos = 0)
    /\ cpc = "Established" =>
          cstream = "returned" /\ csent[n].kind = "request" /\ header # None

\* C19 witness: the TLS client sent its userpass message and failed on the
\* status [1,1].
C19_Witness ==
    /\ transport = "tls" /\ Len(csent) = 2 /\ csent[2].kind = "userpass"
    /\ auth_response = Some(<<1, 1>>) /\ cres = "Authentication failed"

\* C16: handlers are isolated. No step changes auth_required or the allow-list,
\* and every task carries them unchanged; a step changes at most one task and
\* removes none; nothing a handler does or returns takes an accept loop out of
\* accepting; and what a handler has written and returned depends on its own
\* input only: two tasks of one transport that stand at the same place after
\* the same bytes, the same TLS handshake outcome and the same dial outcome have
\* written the same bytes and, if they ended, returned the same result.
C16_Isolation ==
    /\ [](\A i, j \in 1..Len(tasks) :
            LET a == tasks[i]
                b == tasks[j] IN
            /\ a.required = auth_required /\ a.creds = credentials
            /\ (a.tr = b.tr /\ a.pc = b.pc /\ a.dial = b.dial /\ a.tls = b.tls
                  /\ Take(a.inp, a.rd) = Take(b.inp, b.rd)) =>
                 (a.out = b.out /\ a.result = b.result /\ a.up = b.up))
    /\ [][ /\ UNCHANGED <<auth_required, credentials>>
           /\ Len(tasks') >= Len(tasks)
           /\ \A i, j \in 1..Len(tasks) :
                 (i # j /\ tasks'[i] # tasks[i]) => tasks'[j] = tasks[j]
           /\ \A l \in Transports : listeners[l] = "Accept" => listeners'[l] = "Accept"
         ]_vars

\* C16 witness: the first handler ended with a failed authentication, the second
\* one went on to its relay, and its accept loop is still accepting.
C16_Witness ==
    /\ Len(tasks) = 2
    /\ tasks[1].result = "Authentication failed"
    /\ tasks[2].pc = "Relay" /\ tasks[2].tr = tasks[1].tr
    /\ listeners[tasks[1].tr] = "Accept"

\* C17: an accept loop that has bound its port stays in its loop for ever: it
\* returns only from a failed bind, it is back at accept after every spawn and
\* after every failed accept, which changes no task, and whatever the states of
\* the handlers it can accept the next connection.
C17_AcceptNeverWaits ==
    /\ [](\A l \in Transports :
            /\ listeners[l] \in {"Bind", "Accept", "Returned"}
            /\ (listeners[l] = "Accept" /\ Len(tasks) < MaxConn) => ENABLED ListenerAcceptAt(l))
    /\ [][ /\ \A l \in Transports :
                /\ listeners[l] = "Accept" => listeners'[l] = "Accept"
                /\ listeners'[l] = "Returned" => listeners[l] \in {"Bind", "Returned"}
           /\ accept_errors' # accept_errors =>
                (tasks' = tasks /\ listeners' = listeners)
           /\ Len(tasks') > Len(tasks) =>
                (\A i \in 1..Len(tasks) : tasks'[i] = tasks[i])
         ]_vars

\* C17 witness: one handler is blocked on a peer that has sent nothing, an
\* accept has failed, and the loop can accept the next connection.
C17_Witness ==
    /\ Len(tasks) = 1 /\ tasks[1].pc = "ReadHandshake" /\ tasks[1].inp = <<>>
    /\ tasks[1].pst = "open" /\ tasks[1].tr = "tls" /\ accept_errors = 1
    /\ listeners[tasks[1].tr] = "Accept" /\ ENABLED ListenerAcceptAt(tasks[1].tr)

C21_AddressRoundTrip ==
    (value # None /\ value[1].kind = "addr" /\ decoder # "Encode"
       /\ (value[1].addr.atyp = ATYP_DOMAIN => Len(value[1].addr.host) <= 255)) =>
        /\ write_err = ""
        /\ decoder = "SocksAddr" =>
             /\ decoded[1].st = "Ok"
             /\ decoded[1].val[1].atyp = value[1].addr.atyp
             /\ decoded[1].val[1].host = value[1].addr.host
             /\ decoded[1].val[1].port = value[1].addr.port
             /\ decoded[1].n = written

\* C21 witness: a 255-byte name with port 65535, followed on the stream by one
\* more byte, was decoded.
C21_Witness ==
    /\ value # None /\ value[1].kind = "addr" /\ value[1].addr.atyp = ATYP_DOMAIN
    /\ Len(value[1].addr.host) = 255 /\ value[1].addr.port = 65535
    /\ Len(wire) = written + 1
    /\ decoder = "SocksAddr" /\ decoded[1].n = 259

\* C22: credential round trip. For a username and a password of at most 255
\* bytes each, UserPassAuth::write_to succeeds and UserPassAuth::read_from on
\* the stream it wrote to returns the same username and the same password and
\* consumes exactly the bytes written.
C22_CredentialRoundTrip ==
    (value # None /\ value[1].kind = "userpass" /\ decoder # "Encode"
       /\ Len(value[1].username) <= 255 /\ Len(value[1].password) <= 255) =>
        /\ write_err = ""
        /\ decoder = "UserPassAuth" =>
             /\ decoded[1].st = "Ok"
             /\ decoded[1].val[1].username = value[1].username
             /\ decoded[1].val[1].password = value[1].password
             /\ decoded[1].n = written

\* C22 witness: an empty username with a 255-byte password, followed by one more
\* byte, was decoded.
C22_Witness ==
    /\ value # None /\ value[1].kind = "userpass"
    /\ value[1].username = <<>> /\ Len(value[1].password) = 255
    /\ Len(wire) = written + 1
    /\ decoder = "UserPassAuth" /\ decoded[1].st = "Ok" /\ decoded[1].n = 258

\* C23: an encoder fails exactly when a domain name, a username or a password
\* is longer than 255 bytes, and a failing encoder has written no byte.
C23_NoPartialOutput ==
    (value # None /\ decoder # "Encode") =>
        /\ value[1].kind = "addr" =>
             (write_err # "" <=> (value[1].addr.atyp = ATYP_DOMAIN
                                    /\ Len(value[1].addr.host) > 255))
        /\ value[1].kind = "userpass" =>
             (write_err # "" <=> (Len(value[1].username) > 255
                                    \/ Len(value[1].password) > 255))
        /\ write_err # "" => written = 0

\* C30: SocksAddr::read_from dispatches on the first byte. Type 1 takes 4
\* address bytes and a port (7 bytes), type 4 takes 16 and a port (19 bytes),
\* type 3 takes a length byte, that many name bytes and a port, and fails with
\* "Invalid domain name" when the name is not UTF-8; any other type fails with
\* "Unsupported address type" after the type byte alone. A name of length zero
\* is accepted.
C30_AddressDispatch ==
    (decoder = "SocksAddr" /\ wire # <<>>) =>
        LET t == wire[1]
            r == decoded[1]
            have(n) == Len(wire) >= n
            name == SubSeq(wire, 3, 2 + wire[2]) IN
        /\ t \notin {1, 3, 4} =>
             (r.st = "Err" /\ r.err = "Unsupported address type" /\ r.n = 1)
        /\ t = 1 => /\ have(7) <=> r.st = "Ok"
                    /\ r.st = "Ok" =>
                         /\ r.n = 7 /\ r.val[1].atyp = 1
                         /\ r.val[1].host = SubSeq(wire, 2, 5)
                         /\ r.val[1].port = 256 * wire[6] + wire[7]
        /\ t = 4 => /\ have(19) <=> r.st = "Ok"
                    /\ r.st = "Ok" =>
                         /\ r.n = 19 /\ r.val[1].atyp = 4
                         /\ r.val[1].host = SubSeq(wire, 2, 17)
                         /\ r.val[1].port = 256 * wire[18] + wire[19]
        /\ (t = 3 /\ have(2)) =>
             /\ (have(2 + wire[2]) /\ ~IsUtf8(name)) =>
                  (r.st = "Err" /\ r.err = "Invalid domain name")
             /\ (have(4 + wire[2]) /\ IsUtf8(name)) <=> r.st = "Ok"
             /\ r.st = "Ok" =>
                  /\ r.n = 4 + wire[2] /\ r.val[1].atyp = 3
                  /\ r.val[1].host = name
                  /\ r.val[1].port = 256 * wire[3 + wire[2]] + wire[4 + wire[2]]

\* C30 witness: the bytes 03 00 00 50 were decoded as the empty name with port 80.
C30_Witness ==
    /\ decoder = "SocksAddr" /\ Len(wire) >= 4 /\ Take(wire, 4) = <<3, 0, 0, 80>>
    /\ decoded[1].st = "Ok" /\ decoded[1].val[1] = Domain(<<>>, 80) /\ decoded[1].n = 4

\* C24: a greeting whose first byte is not 5. The handler reads the version
\* byte and nothing after it, decodes no greeting, writes no byte to the peer,
\* makes no lookup and no dial, and, unless the connection was reset under the
\* read, returns "Unsupported SOCKS version" having consumed exactly one byte.
C24_WrongVersionGreeting ==
    (c2s # <<>> /\ c2s[1] # SOCKS_VERSION) =>
        /\ rpos <= 1 /\ handshake = None
        /\ pc \in {"ReadHandshake", "Closed"}
        /\ sent = <<>> /\ s2c = <<>>
        /\ lookups = <<>> /\ dials = <<>> /\ server = "none"
        /\ (pc = "Closed" /\ result # "connection reset") =>
             (result = "Unsupported SOCKS version" /\ rpos = 1)

\* C24 witness: the greeting 04 01 00 ended the handler after one byte.
C24_Witness ==
    /\ c2s = <<4, 1, 0>> /\ pc = "Closed" /\ stream = "closed"
    /\ result = "Unsupported SOCKS version" /\ rpos = 1 /\ s2c = <<>>

\* C25: where a CONNECT is dialed. For a domain target one lookup of that name
\* is made and the dial goes to the first address it returned; if the lookup
\* failed or returned no address there is no dial, the reply built is REP=4
\* with the requested address, and the handler returns "Could not resolve
\* domain" after writing it (or the connection's error if the write failed).
\* For an IPv4 or IPv6 target no lookup is made and the dial goes to that
\* address and port.
C25_DialTarget ==
    (request # None /\ IsConnect(request[1].command)) =>
        LET addr == request[1].addr IN
        /\ Len(lookups) <= 1 /\ Len(dials) <= 1
        /\ addr.atyp # ATYP_DOMAIN =>
             /\ lookups = <<>>
             /\ dials # <<>> => dials[1].to = [ip |-> addr.host, port |-> addr.port]
        /\ addr.atyp = ATYP_DOMAIN =>
             /\ lookups # <<>> => lookups[1].name = addr.host
             /\ dials # <<>> =>
                  /\ lookups # <<>> /\ lookups[1].outcome.ok
                  /\ lookups[1].outcome.addresses # <<>>
                  /\ dials[1].to = lookups[1].outcome.addresses[1]
             /\ (lookups # <<>> /\ (~lookups[1].outcome.ok
                                      \/ lookups[1].outcome.addresses = <<>>)) =>
                  /\ dials = <<>> /\ server = "none" /\ a_to_b = "Idle"
                  /\ reply # None /\ reply[1].reply = REP_HOST_UNREACHABLE
                  /\ reply[1].addr = addr
                  /\ pc \in {"WriteReply", "Closed"}
                  /\ pc = "Closed" =>
                       LET last == sent[Len(sent)] IN
                       /\ last.kind = "reply"
                       /\ last.bytes = <<SOCKS_VERSION, 4, 0>> \o SocksAddr_write_to(addr).bytes
                       /\ result = IF last.ok THEN "Could not resolve domain"
                                   ELSE "connection reset"

\* C25 witness: the lookup returned two addresses and the first one was dialed.
C25_Witness ==
    /\ lookups # <<>> /\ Len(lookups[1].outcome.addresses) = 2
    /\ dials # <<>> /\ dials[1].to = Resolved2 /\ dials[1].outcome = "Ok"

\* C26: after a successful dial the reply built is REP=0 with the local address
\* of the upstream socket, or with the requested address if local_addr()
\* failed. The relay runs only after that reply was written whole to the peer,
\* right after the negotiation's answers; if the write failed the handler has
\* ended and no byte was relayed in either direction.
C26_ReplyBeforeRelay ==
    LET relaying == pc = "Relay" \/ a_to_b # "Idle" \/ b_to_a # "Idle"
                      \/ s2u # <<>> \/ upos > 0
        k == Len(sent) IN
    /\ (dials # <<>> /\ dials[1].outcome = "Ok") =>
         /\ reply # None /\ reply[1].reply = REP_SUCCEEDED
         /\ reply[1].addr = IF dials[1].local # None THEN dials[1].local[1]
                            ELSE request[1].addr
    /\ relaying =>
         /\ dials # <<>> /\ dials[1].outcome = "Ok"
         /\ k >= 2 /\ sent[k].kind = "reply" /\ sent[k].ok
         /\ sent[k].bytes = <<SOCKS_VERSION, 0, 0>> \o SocksAddr_write_to(reply[1].addr).bytes
         /\ Len(s2c) >= 2 * (k - 1) + Len(sent[k].bytes)
         /\ SubSeq(s2c, 2 * (k - 1) + 1, 2 * (k - 1) + Len(sent[k].bytes)) = sent[k].bytes
    /\ (k >= 1 /\ sent[k].kind = "reply" /\ ~sent[k].ok) =>
         /\ pc = "Closed" /\ ~relaying

\* C26 witness: local_addr() failed after the dial to a resolved domain; the
\* reply echoes the requested address and the relay is running.
C26_Witness ==
    /\ dials # <<>> /\ dials[1].outcome = "Ok" /\ dials[1].local = None
    /\ request[1].addr = Domain(Name, 443) /\ reply[1].addr = Domain(Name, 443)
    /\ pc = "Relay" /\ a_to_b = "Running"

\* C27: auth_required without an allow-list denies everyone. The handler never
\* gets past the credential check: no request is read, no lookup and no dial
\* is made; whatever credentials were decoded the check fails, the status
\* message issued is [1,1], and the handler has ended with "Authentication
\* failed" (or with the connection's error if the status could not be written).
C27_DenyAll ==
    (auth_required /\ credentials = None) =>
        /\ pc \in {"ReadHandshake", "SelectMethod", "ReadAuth", "Validate", "Closed"}
        /\ request = None /\ reqEnd = 0
        /\ lookups = <<>> /\ dials = <<>> /\ server = "none" /\ a_to_b = "Idle"
        /\ choice # None => choice[1] \in {AUTH_PASSWORD, AUTH_NOT_ACCEPTABLE}
        /\ auth_successful # None =>
             /\ auth_successful = Some(FALSE)
             /\ pc = "Closed"
             /\ sent[Len(sent)].kind = "status" /\ sent[Len(sent)].bytes = <<1, 1>>
             /\ result = IF sent[Len(sent)].ok THEN "Authentication failed"
                         ELSE "connection reset"

\* C27 witness: a well-formed userpass message was answered [1,1] by a server
\* that requires authentication and has no allow-list.
C27_Witness ==
    /\ auth_required /\ credentials = None
    /\ auth = Some([username |-> U1, password |-> P1])
    /\ Len(s2c) = 4 /\ SubSeq(s2c, 3, 4) = <<1, 1>>
    /\ pc = "Closed" /\ result = "Authentication failed"

\* C28: the client's greeting. It is the first message the engine writes, and
\* it is 05 01 00 without credentials and 05 02 00 02 with them: version 5, a
\* count equal to the number of methods that follow, method 0 always and
\* method 2 exactly when credentials are configured.
C28_ClientGreeting ==
    /\ csent # <<>> => csent[1].kind = "greeting"
    /\ \A i \in 1..Len(csent) :
         csent[i].kind = "greeting" =>
             LET g == csent[i].bytes
                 methods == Drop(g, 2) IN
             /\ i = 1
             /\ g = IF client_auth = None THEN <<5, 1, 0>> ELSE <<5, 2, 0, 2>>
             /\ g[1] = SOCKS_VERSION /\ g[2] = Len(methods)
             /\ Contains(methods, AUTH_NONE)
             /\ Contains(methods, AUTH_PASSWORD) <=> client_auth # None
             /\ csent[i].ok => IsPrefix(g, c2s)

\* C28 witness: a TLS client with credentials wrote 05 02 00 02.
C28_Witness ==
    /\ client_auth # None /\ transport = "tls"
    /\ csent # <<>> /\ csent[1].ok /\ c2s = <<5, 2, 0, 2>>

\* C29: the client engine against the server handler, with the allow-list
\* {(u,p)}. Without auth_required a client offering only no-auth reads the
\* choice [5,0] and goes on to send its request. With auth_required a client
\* configured with (u,p) reads the status [1,0], and in every configuration a
\* successful dial of the target leads to the client being Established. With
\* auth_required a client configured with (u,wrong) reads the status [1,1] and
\* fails with "Authentication failed"; it sends no request and the server
\* decodes none and never leaves the negotiation.
C29_ClientWithServer ==
    LET open == ~auth_required /\ client_auth = None
        right == auth_required /\ credentials # None /\ client_auth = Some(<<U1, P1>>)
        wrong == auth_required /\ client_auth = Some(<<U1, P2>>)
        requested == \E i \in 1..Len(csent) : csent[i].kind = "request" /\ csent[i].ok IN
    /\ [](open => /\ response \in {None, Some(<<5, 0>>)}
                  /\ auth_response = None
                  /\ cpc = "Failed" => requested)
    /\ open ~> requested
    /\ [](right => /\ response \in {None, Some(<<5, 2>>)}
                   /\ auth_response \in {None, Some(<<1, 0>>)}
                   /\ cpc = "Failed" => requested)
    /\ (dials # <<>> /\ dials[1].outcome = "Ok") ~> (cpc = "Established")
    /\ [](wrong => /\ auth_response \in {None, Some(<<1, 1>>)}
                   /\ ~requested /\ cpc # "Established"
                   /\ request = None /\ reqEnd = 0 /\ dials = <<>>
                   /\ rpos <= 4 + Len(UserPassMsg(U1, P2))
                   /\ pc \in {"ReadHandshake", "SelectMethod", "ReadAuth", "Validate",
                              "Closed"})
    /\ wrong ~> (cres = "Authentication failed" /\ pc = "Closed"
                   /\ result = "Authentication failed")

\* C29 witness: a client with the listed credentials is Established through a
\* server that requires authentication, and the server relays.
C29_Witness ==
    /\ auth_required /\ client_auth = Some(<<U1, P1>>)
    /\ auth_response = Some(<<1, 0>>)
    /\ cpc = "Established" /\ cres = "Ok" /\ pc = "Relay"
    /\ dials # <<>> /\ dials[1].outcome = "Ok"

\* C31: a userpass message the server cannot decode. When the byte after the
\* greeting of a connection on which userpass was selected is not 1, the
\* handler consumes that byte alone and returns "Invalid authentication
\* version"; when the username or the password is not UTF-8 it returns
\* "Invalid username encoding" or "Invalid password encoding" having consumed
\* the message up to the end of that field. In each case no credentials were
\* decoded or checked, the selection message is all the handler wrote, no
\* request is read and nothing is dialed.
C31_BadUserPass ==
    LET g == IF handshake # None THEN 2 + Len(handshake[1].methods) ELSE 0
        m == Drop(c2s, g)
        ulen == m[2]
        plen == m[3 + ulen]
        BadVersion == Len(m) >= 1 /\ m[1] # AUTH_VERSION
        BadUser == /\ Len(m) >= 2 /\ m[1] = AUTH_VERSION /\ Len(m) >= 2 + ulen
                   /\ ~IsUtf8(SubSeq(m, 3, 2 + ulen))
        BadPass == /\ Len(m) >= 2 /\ m[1] = AUTH_VERSION /\ Len(m) >= 3 + ulen
                   /\ IsUtf8(SubSeq(m, 3, 2 + ulen))
                   /\ Len(m) >= 3 + ulen + plen
                   /\ ~IsUtf8(SubSeq(m, 4 + ulen, 3 + ulen + plen))
        Aborted(e, n) ==
            /\ pc \in {"ReadAuth", "Closed"}
            /\ auth = None /\ auth_successful = None
            /\ Len(sent) = 1 /\ s2c = <<SOCKS_VERSION, AUTH_PASSWORD>>
            /\ request = None /\ reqEnd = 0
            /\ lookups = <<>> /\ dials = <<>> /\ server = "none"
            /\ (pc = "Closed" /\ result # "connection reset") =>
                 (result = e /\ rpos = g + n /\ stream = "closed") IN
    (choice = Some(AUTH_PASSWORD) /\ sent[1].ok) =>
        /\ BadVersion => Aborted("Invalid authentication version", 1)
        /\ BadUser => Aborted("Invalid username encoding", 2 + ulen)
        /\ BadPass => Aborted("Invalid password encoding", 3 + ulen + plen)
        /\ (pc = "Closed" /\ result \in {"Invalid authentication version",
                                         "Invalid username encoding",
                                         "Invalid password encoding"}) =>
             (BadVersion \/ BadUser \/ BadPass)

\* C31 witness: the userpass message 02 01 61 01 78 ended the handler after its
\* first byte.
C31_Witness ==
    /\ c2s = <<SOCKS_VERSION, 2, AUTH_NONE, AUTH_PASSWORD, 2, 1, 97, 1, 120>>
    /\ pc = "Closed" /\ result = "Invalid authentication version" /\ rpos = 5
    /\ s2c = <<SOCKS_VERSION, AUTH_PASSWORD>>

\* C32: the client's reading of the bound address is an address decode. A
\* client that is Established has consumed, after the three header bytes of the
\* reply, exactly the bytes SocksAddr::read_from consumes there, and
\* SocksAddr::read_from succeeds on them; a client that failed on the bound
\* address failed where SocksAddr::read_from fails.
C32_SkipIsDecode ==
    LET start == 2 + (IF auth_response # None THEN 2 ELSE 0)
        b == Drop(s2c, start + 3)
        d == SocksAddr_read_from(SubSeq(b, 1, cpos - start - 3), "eof") IN
    (header # None /\ CheckHeader(header[1][1], header[1][2]) = "") =>
        /\ cpc = "Established" => (d.st = "Ok" /\ d.n = cpos - start - 3)
        /\ (cpc = "Failed" /\ cres # "connection reset") => d.st = "Err"

\* C33: no lookup and no dial before the negotiation is over. Whenever the
\* handler stands at, or has made, a lookup or a dial, it has decoded a
\* greeting and written its selection to the peer: no-auth if authentication
\* is not required, userpass if it is; and if it is required the handler has
\* decoded credentials that are a pair of the allow-list and has written the
\* status [1,0] for them, before the request was decoded.
C33_NoEarlyDial ==
    (lookups # <<>> \/ dials # <<>> \/ dest_addr # None \/ server # "none"
       \/ pc \in {"Lookup", "Connect"}) =>
        /\ handshake # None /\ choice # None /\ request # None
        /\ sent[1].kind = "choice" /\ sent[1].ok /\ IsPrefix(sent[1].bytes, s2c)
        /\ sent[1].bytes = <<SOCKS_VERSION,
                             IF auth_required THEN AUTH_PASSWORD ELSE AUTH_NONE>>
        /\ ~auth_required => auth = None
        /\ auth_required =>
             /\ credentials # None /\ auth # None
             /\ \E i \in 1..Len(credentials[1]) :
                    credentials[1][i] = <<auth[1].username, auth[1].password>>
             /\ auth_successful = Some(TRUE)
             /\ Len(sent) >= 2 /\ sent[2].kind = "status" /\ sent[2].ok
             /\ sent[2].bytes = <<1, 0>> /\ SubSeq(s2c, 3, 4) = <<1, 0>>
             /\ reqEnd > 4 + Len(UserPassMsg(auth[1].username, auth[1].password))

\* C33 witness: with authentication required, the handler stands at the dial
\* for a peer that sent greeting, credentials and request in one go.
C33_Witness ==
    /\ auth_required /\ pc = "Connect" /\ dials = <<>>
    /\ auth = Some([username |-> U2, password |-> P2])
    /\ s2c = <<5, 2, 1, 0>>

\* C34: the reply codes the handler can send are 0, 3, 4, 5 and 7 and no
\* other: every reply it builds and every reply it passes to the stream has
\* one of them. Code 8 is never sent, because every decoded address that is
\* not a domain name converts to a socket address; 1, 2 and 6 are never sent.
C34_ReplyCodes ==
    LET Codes == {REP_SUCCEEDED, REP_NETWORK_UNREACHABLE, REP_HOST_UNREACHABLE,
                  REP_CONNECTION_REFUSED, REP_COMMAND_NOT_SUPPORTED} IN
    /\ Codes = {0, 3, 4, 5, 7}
    /\ reply # None => reply[1].reply \in Codes
    /\ \A i \in 1..Len(sent) :
          sent[i].kind = "reply" =>
              /\ Len(sent[i].bytes) >= 2
              /\ sent[i].bytes[1] = SOCKS_VERSION
              /\ sent[i].bytes[2] \in Codes
    /\ (request # None /\ IsConnect(request[1].command)
          /\ request[1].addr.atyp # ATYP_DOMAIN) =>
              /\ to_socket_addr(request[1].addr) # None
              /\ dest_addr = to_socket_addr(request[1].addr)

\* C34 witness: a CONNECT to an IPv6 address was dialed and answered.
C34_Witness ==
    /\ request # None /\ request[1].command = CMD_CONNECT
    /\ request[1].addr.atyp = ATYP_IPV6
    /\ dials # <<>> /\ dials[1].outcome = "TimedOut"
    /\ Len(sent) >= 2 /\ sent[Len(sent)].kind = "reply" /\ sent[Len(sent)].ok
    /\ sent[Len(sent)].bytes[2] = REP_NETWORK_UNREACHABLE

\* C35: a connection gets at most one reply, and only after a request was
\* decoded; it is the last message the handler writes. The relay has started
\* if and only if that reply had REP=0 and its write succeeded; after a reply
\* with another code nothing is ever relayed to or from an upstream.
C35_OneReply ==
    LET ReplyIdx == {i \in 1..Len(sent) : sent[i].kind = "reply"}
        Relayed == a_to_b # "Idle" \/ b_to_a # "Idle" \/ pc = "Relay" IN
    /\ Cardinality(ReplyIdx) <= 1
    /\ \A i \in ReplyIdx :
          /\ i = Len(sent)
          /\ request # None /\ 0 < reqEnd /\ reqEnd <= rpos
          /\ pc \notin {"ReadHandshake", "SelectMethod", "ReadAuth", "Validate",
                        "ReadRequest", "Lookup", "Connect", "WriteReply"}
          /\ sent[i].bytes[2] # REP_SUCCEEDED =>
                /\ ~Relayed /\ pc = "Closed"
                /\ s2u = <<>> /\ upos = 0 /\ bufA = <<>> /\ bufB = <<>>
                /\ server # "open"
    /\ Relayed <=> \E i \in ReplyIdx : sent[i].ok /\ sent[i].bytes[2] = REP_SUCCEEDED
    /\ (s2u # <<>> \/ upos > 0) => Relayed

\* C35 witness: a success reply was written and bytes went both ways through
\* the relay after it.
C35_Witness ==
    /\ Len(sent) = 2 /\ sent[2].kind = "reply" /\ sent[2].ok
    /\ sent[2].bytes[2] = REP_SUCCEEDED
    /\ s2u # <<>> /\ upos > 0

\* C36: a reply with a code other than 0 carries the address of the request,
\* unchanged and in the same form: its bytes after the three header bytes are
\* the very address bytes the peer sent in the request (a domain name goes
\* back as a domain name). Encoding a reply never fails: the handler never
\* ends with the encoder's "Domain too long".
C36_FailureEcho ==
    /\ result # "Domain too long"
    /\ reply # None =>
          /\ Reply_write_to(reply[1].reply, reply[1].addr).err = ""
          /\ reply[1].reply # REP_SUCCEEDED =>
                /\ reply[1].addr = request[1].addr
                /\ reply[1].addr.atyp = request[1].addr.atyp
    /\ \A i \in Replies :
          sent[i].bytes[2] # REP_SUCCEEDED =>
              LET n == Len(sent[i].bytes) - 3 IN
              /\ n > 0
              /\ SubSeq(sent[i].bytes, 1, 3) = <<SOCKS_VERSION, reply[1].reply, 0>>
              /\ SubSeq(sent[i].bytes, 4, Len(sent[i].bytes))
                    = SubSeq(c2s, reqEnd - n + 1, reqEnd)
              /\ sent[i].bytes[4] = request[1].addr.atyp

\* C36 witness: a lookup failed and the reply with code 4 that went to the
\* peer names the domain of the request.
C36_Witness ==
    /\ request # None /\ request[1].addr.atyp = ATYP_DOMAIN
    /\ lookups # <<>> /\ dials = <<>>
    /\ sent # <<>> /\ sent[Len(sent)].kind = "reply" /\ sent[Len(sent)].ok
    /\ sent[Len(sent)].bytes[2] = REP_HOST_UNREACHABLE
    /\ sent[Len(sent)].bytes[4] = ATYP_DOMAIN

\* C37: the client engine and the server handler on the two ends of one
\* connection never wait for each other for ever before the relay. For every
\* client configuration (no credentials, credentials of the allow-list,
\* credentials not in it) and every server configuration (authentication
\* required or not, allow-list present or absent) each run ends in one of two
\* ways and stays there: the client is Established and the server has entered
\* the relay, or the client has failed and dropped its stream and the handler
\* has returned an error and closed without relaying. The client is never
\* Established without the server relaying, and never failed with it relaying.
C37_NoDeadlock ==
    LET Relaying == a_to_b # "Idle" /\ b_to_a # "Idle"
        Success == /\ cpc = "Established" /\ cres = "Ok" /\ Relaying
                   /\ server # "none"
        Failure == /\ cpc = "Failed" /\ cres \notin {"", "Ok"} /\ cstream = "closed"
                   /\ pc = "Closed" /\ result \notin {"", "Ok"} /\ stream = "closed"
                   /\ ~Relaying /\ server # "open" IN
    /\ <>[](Success \/ Failure)
    /\ [](cpc = "Established" => Relaying)
    /\ [](cpc = "Failed" => ~Relaying /\ pc # "Relay")
    /\ [](pc = "Relay" => cpc \in {"ReadReply", "Established"})

\* C37 witness: a client with credentials against a server that requires
\* authentication and has no allow-list: both have failed and closed.
C37_Witness ==
    /\ auth_required /\ credentials = None /\ client_auth = Some(<<U1, P1>>)
    /\ cpc = "Failed" /\ cstream = "closed"
    /\ pc = "Closed" /\ stream = "closed" /\ result = "Authentication failed"

\* C38: the handler terminates. If the peer goes on writing or closes, every
\* lookup and dial returns, and both sides of the relay reach end of stream or
\* an error, the handler reaches Closed, having returned and dropped the
\* accepted connection and the upstream. A peer that closes in the middle of
\* a message makes the handler end, with an error and without relaying.
C38_Terminates ==
    /\ <>(pc = "Closed")
    /\ [](pc = "Closed" => result # "" /\ stream = "closed" /\ server # "open")
    /\ [](peerStage = 5 => pc # "Relay" /\ a_to_b = "Idle" /\ result # "Ok")

\* C38 witness: the peer closed after the first bytes of its request, and the
\* handler, which was waiting for the rest, has ended with the read's error.
C38_Witness ==
    /\ peerStage = 5 /\ cState = "eof"
    /\ handshake # None /\ request = None /\ rpos > 2
    /\ pc = "Closed" /\ result = "early eof"
====
